---- MODULE Spec2Model ----
(***************************************************************************)
(* Model of the process-events connector (src/io/connector.rs,             *)
(* src/io/connector/cnproc.rs, src/io/socket.rs) and of its caller         *)
(* (src/main.rs).                                                          *)
(*                                                                         *)
(* 32-bit quantities are written as 4-tuples of bytes, most significant    *)
(* byte first, and 16-bit quantities as 2-tuples: PROCESS_EVENT_EXIT       *)
(* (0x80000000) and the accept value 0xffffffff do not fit the checker's   *)
(* integers, and the filter only ever compares them for equality.          *)
(***************************************************************************)
EXTENDS Integers, Sequences, FiniteSets, TLC

VARIABLES
    endian,     \* byte order of the build target: "little" or "big"
    msg,        \* FilterSpec: the candidate datagram the filter is run on
    vm,         \* FilterSpec: the filter machine (prog, pc, A, X, M, status, ret, steps)
    pc,         \* Spec: position of the main thread
    sock,       \* Spec: the kernel's view of the Socket's file descriptor
    trace,      \* Spec: the socket calls issued so far, in order, with results
    pending,    \* Spec: the I/O error try_new is propagating (NoError if none)
    tryNew,     \* Spec: what try_new returned
    queue,      \* Spec: datagrams queued on the socket by the kernel
    stop,       \* Spec: the AtomicBool set by the Ctrl-C handler
    item,       \* Spec: what the last Iter::next call yielded
    log,        \* Spec: the errors handed to log::error!
    exit,       \* Spec: what main returned
    registry,   \* Spec: main's process_registry, PID -> ExecutedFileName
    out,        \* Spec: the lines written to stdout
    calc,       \* LengthSpec: a length computation, its argument and its result
    args,       \* the command line flags of the run
    budget,     \* how many more reads of /proc and writes to stdout may fail
    failure     \* Spec: the error main returned, outermost message first

vars ==
    <<endian, msg, vm, pc, sock, trace, pending, tryNew, queue, stop, item, log, exit,
      registry, out, calc, args, budget, failure>>

filterVars == <<msg, vm>>
connVars ==
    <<pc, sock, trace, pending, tryNew, queue, stop, item, log, exit, registry, out, failure>>

(***************************************************************************)
(* Bounds of the model.                                                    *)
(***************************************************************************)
MaxPid == 2
MaxQueue == 1
MaxPulls == 2
MaxPayload == 64
MaxFaults == 1
MaxArgs == 2

(***************************************************************************)
(* Words, half-words and byte order.                                       *)
(***************************************************************************)
Byte == 0..255

W32(n) == <<(n \div 16777216) % 256, (n \div 65536) % 256, (n \div 256) % 256, n % 256>>

W16(n) == <<(n \div 256) % 256, n % 256>>

swap_bytes(w) == [i \in 1..Len(w) |-> w[Len(w) + 1 - i]]

\* Mutant: the constant is left in host order.
to_be_host_order(e, w) == w

\* uN::to_be: the identity on a big-endian target, swap_bytes otherwise.
to_be(e, w) == IF e = "big" THEN w ELSE swap_bytes(w)

\* `as libc::c_uint` of a c_ushort: zero extension.
as_c_uint(h) == IF Len(h) = 2 THEN <<0, 0>> \o h ELSE h

\* The bytes a value occupies in memory on the target.
host_bytes(e, w) == IF e = "big" THEN w ELSE swap_bytes(w)

\* The value a run of bytes in memory holds on the target.
host_value(e, bs) == IF e = "big" THEN bs ELSE swap_bytes(bs)

Zeros(n) == [i \in 1..n |-> 0]

(***************************************************************************)
(* Kernel ABI: the constants and structure layouts the bindings give.      *)
(***************************************************************************)
BPF_LD == 0
BPF_LDX == 1
BPF_ST == 2
BPF_JMP == 5
BPF_RET == 6
BPF_W == 0
BPF_H == 8
BPF_ABS == 32
BPF_MEM == 96
BPF_JEQ == 16
BPF_K == 0
BPF_X == 8
BPF_MEMWORDS == 16

NLMSG_ALIGNTO == 4
NLMSG_DONE == 3
CN_IDX_PROC == 1
CN_VAL_PROC == 1
PROCESS_EVENT_NONE == <<0, 0, 0, 0>>
PROCESS_EVENT_FORK == <<0, 0, 0, 1>>
PROCESS_EVENT_EXEC == <<0, 0, 0, 2>>
PROCESS_EVENT_EXIT == <<128, 0, 0, 0>>

\* A structure is the sequence of its fields, each <<name, size in bytes>>;
\* every field of these structures is naturally aligned, so there is no padding.
nlmsghdr ==
    << <<"nlmsg_len", 4>>, <<"nlmsg_type", 2>>, <<"nlmsg_flags", 2>>,
       <<"nlmsg_seq", 4>>, <<"nlmsg_pid", 4>> >>

cb_id == << <<"idx", 4>>, <<"val", 4>> >>

cn_msg ==
    << <<"id", 8>>, <<"seq", 4>>, <<"ack", 4>>, <<"len", 2>>, <<"flags", 2>>,
       <<"data", 0>> >>

proc_event ==
    << <<"what", 4>>, <<"cpu", 4>>, <<"timestamp_ns", 8>>, <<"event_data", 24>> >>

ExecProcEvent == << <<"process_pid", 4>>, <<"process_tgid", 4>> >>

ExitProcEvent ==
    << <<"process_pid", 4>>, <<"process_tgid", 4>>, <<"exit_code", 4>>,
       <<"exit_signal", 4>> >>

RECURSIVE SumSizes(_, _)
SumSizes(layout, n) == IF n = 0 THEN 0 ELSE layout[n][2] + SumSizes(layout, n - 1)

size_of(layout) == SumSizes(layout, Len(layout))

offset_of(layout, f) ==
    LET i == CHOOSE j \in 1..Len(layout) : layout[j][1] = f
    IN  SumSizes(layout, i - 1)

(***************************************************************************)
(* cnproc.rs: netlink length helpers and the sock_filter macros.           *)
(***************************************************************************)
\* (len + NLMSG_ALIGNTO - 1) & !(NLMSG_ALIGNTO - 1), NLMSG_ALIGNTO a power of two
nlmsg_align(len) == ((len + NLMSG_ALIGNTO - 1) \div NLMSG_ALIGNTO) * NLMSG_ALIGNTO

nlmsg_hdrlen == nlmsg_align(size_of(nlmsghdr))

\* Mutant: the total is rounded up to the alignment boundary.
nlmsg_length_aligned(len) == nlmsg_align(len + nlmsg_hdrlen)

\* len + nlmsg_hdrlen(): the header is aligned, the total is not.
nlmsg_length(len) == len + nlmsg_hdrlen

\* The operands of every | in the filter have no bit in common, so | is +.
bpf_jump(code, k, jt, jf) == [code |-> code, jt |-> jt, jf |-> jf, k |-> as_c_uint(k)]

bpf_stmt(code, k) == [code |-> code, jt |-> 0, jf |-> 0, k |-> as_c_uint(k)]

(***************************************************************************)
(* connector.rs, install_filter: the filter program, section by section.   *)
(* e is the byte order of the target, which to_be depends on.              *)
(***************************************************************************)
usize_as_c_uint(n) == W32(n)

\* Mutant: the branch targets of the nlmsg_pid test swapped.
filter_from_kernel_swapped(e) ==
    << bpf_stmt(BPF_LD + BPF_W + BPF_ABS, usize_as_c_uint(offset_of(nlmsghdr, "nlmsg_pid"))),
       bpf_jump(BPF_JMP + BPF_JEQ + BPF_K, W32(0), 0, 1),
       bpf_stmt(BPF_RET + BPF_K, W32(0)) >>

\* Check message from kernel.
filter_from_kernel(e) ==
    << bpf_stmt(BPF_LD + BPF_W + BPF_ABS, usize_as_c_uint(offset_of(nlmsghdr, "nlmsg_pid"))),
       bpf_jump(BPF_JMP + BPF_JEQ + BPF_K, W32(0), 1, 0),
       bpf_stmt(BPF_RET + BPF_K, W32(0)) >>

\* Check message type NLMSG_DONE.
filter_msg_type(e) ==
    << bpf_stmt(BPF_LD + BPF_H + BPF_ABS, usize_as_c_uint(offset_of(nlmsghdr, "nlmsg_type"))),
       bpf_jump(BPF_JMP + BPF_JEQ + BPF_K, to_be(e, W16(NLMSG_DONE)), 1, 0),
       bpf_stmt(BPF_RET + BPF_K, W32(0)) >>

\* Check proc connector event CN_IDX_PROC.
filter_cn_idx(e) ==
    << bpf_stmt(BPF_LD + BPF_W + BPF_ABS,
                usize_as_c_uint(nlmsg_length(0) + offset_of(cn_msg, "id") + offset_of(cb_id, "idx"))),
       bpf_jump(BPF_JMP + BPF_JEQ + BPF_K, to_be(e, W32(CN_IDX_PROC)), 1, 0),
       bpf_stmt(BPF_RET + BPF_K, W32(0)) >>

\* Mutant: CN_VAL_PROC embedded in host order.
filter_cn_val_host_order(e) ==
    << bpf_stmt(BPF_LD + BPF_W + BPF_ABS,
                usize_as_c_uint(nlmsg_length(0) + offset_of(cn_msg, "id") + offset_of(cb_id, "val"))),
       bpf_jump(BPF_JMP + BPF_JEQ + BPF_K, W32(CN_VAL_PROC), 1, 0),
       bpf_stmt(BPF_RET + BPF_K, W32(0)) >>

\* Check proc connector event CN_VAL_PROC.
filter_cn_val(e) ==
    << bpf_stmt(BPF_LD + BPF_W + BPF_ABS,
                usize_as_c_uint(nlmsg_length(0) + offset_of(cn_msg, "id") + offset_of(cb_id, "val"))),
       bpf_jump(BPF_JMP + BPF_JEQ + BPF_K, to_be(e, W32(CN_VAL_PROC)), 1, 0),
       bpf_stmt(BPF_RET + BPF_K, W32(0)) >>

\* Mutant: a failed leader test falls through to the accept.
filter_accept_exec_no_leader_test(e) ==
    << bpf_stmt(BPF_LD + BPF_W + BPF_ABS,
                usize_as_c_uint(nlmsg_length(0) + offset_of(cn_msg, "data") + offset_of(proc_event, "what"))),
       bpf_jump(BPF_JMP + BPF_JEQ + BPF_K, to_be(e, PROCESS_EVENT_EXEC), 0, 6),
       bpf_stmt(BPF_LD + BPF_W + BPF_ABS,
                usize_as_c_uint(nlmsg_length(0) + offset_of(cn_msg, "data")
                                + offset_of(proc_event, "event_data")
                                + offset_of(ExecProcEvent, "process_pid"))),
       bpf_stmt(BPF_ST, W32(0)),
       bpf_stmt(BPF_LDX + BPF_W + BPF_MEM, W32(0)),
       bpf_stmt(BPF_LD + BPF_W + BPF_ABS,
                usize_as_c_uint(nlmsg_length(0) + offset_of(cn_msg, "data")
                                + offset_of(proc_event, "event_data")
                                + offset_of(ExecProcEvent, "process_tgid"))),
       bpf_jump(BPF_JMP + BPF_JEQ + BPF_X, W32(0), 0, 0),
       bpf_stmt(BPF_RET + BPF_K, <<255, 255, 255, 255>>) >>

\* Mutant: the failed leader test skips one instruction too many.
filter_accept_exec_past_end(e) ==
    << bpf_stmt(BPF_LD + BPF_W + BPF_ABS,
                usize_as_c_uint(nlmsg_length(0) + offset_of(cn_msg, "data") + offset_of(proc_event, "what"))),
       bpf_jump(BPF_JMP + BPF_JEQ + BPF_K, to_be(e, PROCESS_EVENT_EXEC), 0, 6),
       bpf_stmt(BPF_LD + BPF_W + BPF_ABS,
                usize_as_c_uint(nlmsg_length(0) + offset_of(cn_msg, "data")
                                + offset_of(proc_event, "event_data")
                                + offset_of(ExecProcEvent, "process_pid"))),
       bpf_stmt(BPF_ST, W32(0)),
       bpf_stmt(BPF_LDX + BPF_W + BPF_MEM, W32(0)),
       bpf_stmt(BPF_LD + BPF_W + BPF_ABS,
                usize_as_c_uint(nlmsg_length(0) + offset_of(cn_msg, "data")
                                + offset_of(proc_event, "event_data")
                                + offset_of(ExecProcEvent, "process_tgid"))),
       bpf_jump(BPF_JMP + BPF_JEQ + BPF_X, W32(0), 0, 10),
       bpf_stmt(BPF_RET + BPF_K, <<255, 255, 255, 255>>) >>

\* Accept exec messages from processes (process_pid == process_tgid).
filter_accept_exec(e) ==
    << bpf_stmt(BPF_LD + BPF_W + BPF_ABS,
                usize_as_c_uint(nlmsg_length(0) + offset_of(cn_msg, "data") + offset_of(proc_event, "what"))),
       bpf_jump(BPF_JMP + BPF_JEQ + BPF_K, to_be(e, PROCESS_EVENT_EXEC), 0, 6),
       bpf_stmt(BPF_LD + BPF_W + BPF_ABS,
                usize_as_c_uint(nlmsg_length(0) + offset_of(cn_msg, "data")
                                + offset_of(proc_event, "event_data")
                                + offset_of(ExecProcEvent, "process_pid"))),
       bpf_stmt(BPF_ST, W32(0)),
       bpf_stmt(BPF_LDX + BPF_W + BPF_MEM, W32(0)),
       bpf_stmt(BPF_LD + BPF_W + BPF_ABS,
                usize_as_c_uint(nlmsg_length(0) + offset_of(cn_msg, "data")
                                + offset_of(proc_event, "event_data")
                                + offset_of(ExecProcEvent, "process_tgid"))),
       bpf_jump(BPF_JMP + BPF_JEQ + BPF_X, W32(0), 0, 9),
       bpf_stmt(BPF_RET + BPF_K, <<255, 255, 255, 255>>) >>

\* Mutant: a failed leader test falls through to the accept.
filter_accept_exit_no_leader_test(e) ==
    << bpf_stmt(BPF_LD + BPF_W + BPF_ABS,
                usize_as_c_uint(nlmsg_length(0) + offset_of(cn_msg, "data") + offset_of(proc_event, "what"))),
       bpf_jump(BPF_JMP + BPF_JEQ + BPF_K, to_be(e, PROCESS_EVENT_EXIT), 0, 6),
       bpf_stmt(BPF_LD + BPF_W + BPF_ABS,
                usize_as_c_uint(nlmsg_length(0) + offset_of(cn_msg, "data")
                                + offset_of(proc_event, "event_data")
                                + offset_of(ExitProcEvent, "process_pid"))),
       bpf_stmt(BPF_ST, W32(0)),
       bpf_stmt(BPF_LDX + BPF_W + BPF_MEM, W32(0)),
       bpf_stmt(BPF_LD + BPF_W + BPF_ABS,
                usize_as_c_uint(nlmsg_length(0) + offset_of(cn_msg, "data")
                                + offset_of(proc_event, "event_data")
                                + offset_of(ExitProcEvent, "process_tgid"))),
       bpf_jump(BPF_JMP + BPF_JEQ + BPF_X, W32(0), 0, 0),
       bpf_stmt(BPF_RET + BPF_K, <<255, 255, 255, 255>>) >>

\* Mutant: a kind other than EXIT falls through to the leader test.
filter_accept_exit_any_kind(e) ==
    << bpf_stmt(BPF_LD + BPF_W + BPF_ABS,
                usize_as_c_uint(nlmsg_length(0) + offset_of(cn_msg, "data") + offset_of(proc_event, "what"))),
       bpf_jump(BPF_JMP + BPF_JEQ + BPF_K, to_be(e, PROCESS_EVENT_EXIT), 0, 0),
       bpf_stmt(BPF_LD + BPF_W + BPF_ABS,
                usize_as_c_uint(nlmsg_length(0) + offset_of(cn_msg, "data")
                                + offset_of(proc_event, "event_data")
                                + offset_of(ExitProcEvent, "process_pid"))),
       bpf_stmt(BPF_ST, W32(0)),
       bpf_stmt(BPF_LDX + BPF_W + BPF_MEM, W32(0)),
       bpf_stmt(BPF_LD + BPF_W + BPF_ABS,
                usize_as_c_uint(nlmsg_length(0) + offset_of(cn_msg, "data")
                                + offset_of(proc_event, "event_data")
                                + offset_of(ExitProcEvent, "process_tgid"))),
       bpf_jump(BPF_JMP + BPF_JEQ + BPF_X, W32(0), 0, 1),
       bpf_stmt(BPF_RET + BPF_K, <<255, 255, 255, 255>>) >>

\* Accept exit messages from processes (process_pid == process_tgid).
filter_accept_exit(e) ==
    << bpf_stmt(BPF_LD + BPF_W + BPF_ABS,
                usize_as_c_uint(nlmsg_length(0) + offset_of(cn_msg, "data") + offset_of(proc_event, "what"))),
       bpf_jump(BPF_JMP + BPF_JEQ + BPF_K, to_be(e, PROCESS_EVENT_EXIT), 0, 6),
       bpf_stmt(BPF_LD + BPF_W + BPF_ABS,
                usize_as_c_uint(nlmsg_length(0) + offset_of(cn_msg, "data")
                                + offset_of(proc_event, "event_data")
                                + offset_of(ExitProcEvent, "process_pid"))),
       bpf_stmt(BPF_ST, W32(0)),
       bpf_stmt(BPF_LDX + BPF_W + BPF_MEM, W32(0)),
       bpf_stmt(BPF_LD + BPF_W + BPF_ABS,
                usize_as_c_uint(nlmsg_length(0) + offset_of(cn_msg, "data")
                                + offset_of(proc_event, "event_data")
                                + offset_of(ExitProcEvent, "process_tgid"))),
       bpf_jump(BPF_JMP + BPF_JEQ + BPF_X, W32(0), 0, 1),
       bpf_stmt(BPF_RET + BPF_K, <<255, 255, 255, 255>>) >>

\* Mutant: the final return left out.
filter_drop_missing(e) == << >>

\* Drop any other messages.
filter_drop(e) == << bpf_stmt(BPF_RET + BPF_K, W32(0)) >>

filter(e) ==
    filter_from_kernel(e) \o filter_msg_type(e) \o filter_cn_idx(e) \o filter_cn_val(e)
        \o filter_accept_exec(e) \o filter_accept_exit(e) \o filter_drop(e)

(***************************************************************************)
(* The kernel's side of SO_ATTACH_FILTER: how it runs a sock_filter        *)
(* program on a datagram (the opcodes install_filter uses).                *)
(***************************************************************************)
REJECT == <<0, 0, 0, 0>>
ACCEPT == <<255, 255, 255, 255>>

\* k as an offset; a k with a high byte set is past the end of any datagram here.
KOffset(k) == IF k[1] = 0 /\ k[2] = 0 THEN k[3] * 256 + k[4] ELSE 65536

\* The machine at the start of a run of the attached program prog.
VmStart(prog) ==
    [prog |-> prog, pc |-> 0, A |-> REJECT, X |-> REJECT, M |-> [i \in 0..(BPF_MEMWORDS - 1) |-> REJECT],
     status |-> "run", ret |-> REJECT, steps |-> 0]

InsClass(s) ==
    IF s.status # "run" \/ s.pc >= Len(s.prog) THEN "none"
    ELSE LET c == s.prog[s.pc + 1].code
         IN  CASE c = BPF_LD + BPF_W + BPF_ABS -> "ld"
               [] c = BPF_LD + BPF_H + BPF_ABS -> "ld"
               [] c = BPF_ST -> "st"
               [] c = BPF_LDX + BPF_W + BPF_MEM -> "ldx"
               [] c = BPF_JMP + BPF_JEQ + BPF_K -> "jmp"
               [] c = BPF_JMP + BPF_JEQ + BPF_X -> "jmp"
               [] c = BPF_RET + BPF_K -> "ret"
               [] OTHER -> "none"

\* LD ABS: size bytes at offset k, read in network byte order; a load past the
\* end of the datagram ends the program with 0.
BpfLoadAbs(bytes, s, k, size) ==
    LET off == KOffset(k)
    IN  IF off + size > Len(bytes)
        THEN [s EXCEPT !.status = "ret", !.ret = REJECT, !.steps = @ + 1]
        ELSE [s EXCEPT !.A = Zeros(4 - size) \o SubSeq(bytes, off + 1, off + size),
                       !.pc = @ + 1, !.steps = @ + 1]

BpfJump(s, ins, taken) ==
    [s EXCEPT !.pc = @ + 1 + (IF taken THEN ins.jt ELSE ins.jf), !.steps = @ + 1]

BpfStep(bytes, s) ==
    IF InsClass(s) = "none" THEN [s EXCEPT !.status = "fault"]
    ELSE LET ins == s.prog[s.pc + 1]
             c == ins.code
         IN  CASE c = BPF_LD + BPF_W + BPF_ABS -> BpfLoadAbs(bytes, s, ins.k, 4)
               [] c = BPF_LD + BPF_H + BPF_ABS -> BpfLoadAbs(bytes, s, ins.k, 2)
               [] c = BPF_ST ->
                    [s EXCEPT !.M[KOffset(ins.k)] = s.A, !.pc = @ + 1, !.steps = @ + 1]
               [] c = BPF_LDX + BPF_W + BPF_MEM ->
                    [s EXCEPT !.X = s.M[KOffset(ins.k)], !.pc = @ + 1, !.steps = @ + 1]
               [] c = BPF_JMP + BPF_JEQ + BPF_K -> BpfJump(s, ins, s.A = ins.k)
               [] c = BPF_JMP + BPF_JEQ + BPF_X -> BpfJump(s, ins, s.A = s.X)
               [] c = BPF_RET + BPF_K ->
                    [s EXCEPT !.status = "ret", !.ret = ins.k, !.steps = @ + 1]

RECURSIVE BpfRun(_, _)
BpfRun(bytes, s) == IF s.status # "run" THEN s ELSE BpfRun(bytes, BpfStep(bytes, s))

\* What the socket does with a datagram: queue it unless the program returns 0.
FilterAccepts(prog, bytes) ==
    LET s == BpfRun(bytes, VmStart(prog))
    IN  s.status = "ret" /\ s.ret # REJECT

(***************************************************************************)
(* Datagrams: nlmsghdr, cn_msg, proc_event, as the kernel lays them out in *)
(* the memory of the target (nlcn_msg<cn_msg> followed by proc_event).     *)
(***************************************************************************)
EventMsgSize == nlmsg_length(size_of(cn_msg) + size_of(proc_event))

\* A connector datagram that carries no proc_event (other connector traffic).
BareMsgSize == nlmsg_length(size_of(cn_msg))

MsgBytes(e, m) ==
    LET all ==
            host_bytes(e, W32(m.size)) \o host_bytes(e, m.nlmsg_type) \o Zeros(2)
                \o Zeros(4) \o host_bytes(e, m.nlmsg_pid)
            \o host_bytes(e, m.idx) \o host_bytes(e, m.val) \o Zeros(4) \o Zeros(4)
                \o host_bytes(e, W16(size_of(proc_event))) \o Zeros(2)
            \o host_bytes(e, m.what) \o Zeros(4) \o Zeros(8)
                \o host_bytes(e, m.pid) \o host_bytes(e, m.tgid) \o Zeros(16)
    IN  SubSeq(all, 1, m.size)

Pids == {W32(p) : p \in 1..MaxPid}

Ports == {W32(0), W32(1)}

\* NLMSG_DONE, NLMSG_ERROR, and the value whose bytes are NLMSG_DONE's reversed.
MsgTypes == {W16(NLMSG_DONE), W16(2), swap_bytes(W16(NLMSG_DONE))}

\* CN_IDX_PROC / CN_VAL_PROC, another connector's id, and the byte-reversed value.
CnIds == {W32(CN_IDX_PROC), W32(2), swap_bytes(W32(CN_IDX_PROC))}

\* swap_bytes(PROCESS_EVENT_EXIT) is 0x80, the kernel's PROC_EVENT_SID.
Kinds ==
    {PROCESS_EVENT_NONE, PROCESS_EVENT_FORK, PROCESS_EVENT_EXEC, PROCESS_EVENT_EXIT,
     swap_bytes(PROCESS_EVENT_EXEC), swap_bytes(PROCESS_EVENT_EXIT)}

Messages ==
    [size : {EventMsgSize, BareMsgSize}, nlmsg_pid : Ports, nlmsg_type : MsgTypes,
     idx : CnIds, val : CnIds, what : Kinds, pid : Pids, tgid : Pids]

Endians == {"little", "big"}

\* The datagrams the kernel sends to the CN_IDX_PROC group in Spec.
Traffic ==
    [size : {EventMsgSize}, nlmsg_pid : {W32(0)}, nlmsg_type : {W16(NLMSG_DONE)},
     idx : {W32(CN_IDX_PROC)}, val : {W32(CN_VAL_PROC), W32(2)},
     what : {PROCESS_EVENT_FORK, PROCESS_EVENT_EXEC, PROCESS_EVENT_EXIT},
     pid : Pids, tgid : Pids]

(***************************************************************************)
(* The state before main has made any call.                                *)
(***************************************************************************)
NoError == [kind |-> "none", call |-> 0]

\* cmdline_args: -c (print the command line) and --no-color.
Args == [cmdline : BOOLEAN, nocolor : BOOLEAN]

NoArgs == [cmdline |-> FALSE, nocolor |-> FALSE]

\* HashMap::new()
EmptyRegistry == [p \in {} |-> << >>]

NoCalc == [fn |-> "none", arg |-> 0, result |-> 0]

NoMsg ==
    [size |-> BareMsgSize, nlmsg_pid |-> W32(0), nlmsg_type |-> W16(NLMSG_DONE),
     idx |-> W32(CN_IDX_PROC), val |-> W32(CN_VAL_PROC), what |-> PROCESS_EVENT_NONE,
     pid |-> W32(1), tgid |-> W32(1)]

ConnInit ==
    /\ pc = "try_new"
    /\ sock = [state |-> "none", rcvtimeo |-> 0, attached |-> FALSE, passes |-> {},
               groups |-> 0]
    /\ trace = << >>
    /\ pending = NoError
    /\ tryNew = [kind |-> "none"]
    /\ queue = << >>
    /\ stop = FALSE
    /\ item = [kind |-> "none"]
    /\ log = << >>
    /\ exit = "none"
    /\ registry = EmptyRegistry
    /\ out = << >>
    /\ failure = << >>

(***************************************************************************)
(* socket.rs: every Socket method is one libc call, which succeeds or      *)
(* fails with an errno; the trace records the calls in the order issued.   *)
(***************************************************************************)
ErrKinds == {"PermissionDenied", "Other"}

RecvErrKinds == {"WouldBlock", "Other"}

ffi_call(op, arg, r) == trace' = Append(trace, [op |-> op, arg |-> arg, res |-> r])

\* The io::Error of the call being issued: its kind, and which call made it.
last_os_error(r) == [kind |-> r, call |-> Len(trace) + 1]

Calls(op) == {i \in 1..Len(trace) : trace[i].op = op}

(***************************************************************************)
(* connector.rs: the control datagram of subscribe_to_proc_events.         *)
(***************************************************************************)
proc_cn_mcast_op == << <<"op", 4>> >>

PROC_CN_MCAST_LISTEN == 1
PROC_CN_MCAST_IGNORE == 2

ControlMsgSize == nlmsg_length(size_of(cn_msg) + size_of(proc_cn_mcast_op))

\* Mutant: the operation does not depend on the flag.
subscribe_datagram_always_listen(e, subscribe) ==
    LET buffer ==
            host_bytes(e, W32(ControlMsgSize)) \o host_bytes(e, W16(NLMSG_DONE)) \o Zeros(2)
                \o Zeros(4) \o host_bytes(e, W32(0))
            \o host_bytes(e, W32(CN_IDX_PROC)) \o host_bytes(e, W32(CN_VAL_PROC))
                \o Zeros(4) \o Zeros(4)
                \o host_bytes(e, W16(size_of(proc_cn_mcast_op))) \o Zeros(2)
            \o host_bytes(e, W32(IF subscribe THEN PROC_CN_MCAST_LISTEN
                                 ELSE PROC_CN_MCAST_LISTEN))
    IN  SubSeq(buffer, 1, ControlMsgSize)

\* Mutant: cn_msg.id.val is left as the zeroed buffer has it.
subscribe_datagram_no_val(e, subscribe) ==
    LET buffer ==
            host_bytes(e, W32(ControlMsgSize)) \o host_bytes(e, W16(NLMSG_DONE)) \o Zeros(2)
                \o Zeros(4) \o host_bytes(e, W32(0))
            \o host_bytes(e, W32(CN_IDX_PROC)) \o Zeros(4)
                \o Zeros(4) \o Zeros(4)
                \o host_bytes(e, W16(size_of(proc_cn_mcast_op))) \o Zeros(2)
            \o host_bytes(e, W32(IF subscribe THEN PROC_CN_MCAST_LISTEN
                                 ELSE PROC_CN_MCAST_IGNORE))
    IN  SubSeq(buffer, 1, ControlMsgSize)

\* Mutant: nlmsg_len counts the connector message without the netlink header.
subscribe_datagram_payload_len(e, subscribe) ==
    LET buffer ==
            host_bytes(e, W32(size_of(cn_msg) + size_of(proc_cn_mcast_op))) \o host_bytes(e, W16(NLMSG_DONE)) \o Zeros(2)
                \o Zeros(4) \o host_bytes(e, W32(0))
            \o host_bytes(e, W32(CN_IDX_PROC)) \o host_bytes(e, W32(CN_VAL_PROC))
                \o Zeros(4) \o Zeros(4)
                \o host_bytes(e, W16(size_of(proc_cn_mcast_op))) \o Zeros(2)
            \o host_bytes(e, W32(IF subscribe THEN PROC_CN_MCAST_LISTEN
                                 ELSE PROC_CN_MCAST_IGNORE))
    IN  SubSeq(buffer, 1, ControlMsgSize)

\* The buffer is zeroed, then nlmsg_pid, nlmsg_type, nlmsg_len, cn_msg.id,
\* cn_msg.len and the operation are assigned; MSG_SIZE bytes of it are sent.
subscribe_datagram(e, subscribe) ==
    LET buffer ==
            host_bytes(e, W32(ControlMsgSize)) \o host_bytes(e, W16(NLMSG_DONE)) \o Zeros(2)
                \o Zeros(4) \o host_bytes(e, W32(0))
            \o host_bytes(e, W32(CN_IDX_PROC)) \o host_bytes(e, W32(CN_VAL_PROC))
                \o Zeros(4) \o Zeros(4)
                \o host_bytes(e, W16(size_of(proc_cn_mcast_op))) \o Zeros(2)
            \o host_bytes(e, W32(IF subscribe THEN PROC_CN_MCAST_LISTEN
                                 ELSE PROC_CN_MCAST_IGNORE))
    IN  SubSeq(buffer, 1, ControlMsgSize)

(***************************************************************************)
(* connector.rs, try_new: the construction pipeline, and what happens to   *)
(* the connector when a step fails.                                        *)
(***************************************************************************)
RCVTIMEO_SECS == 3

\* Mutant: the filter is installed last, on a socket already subscribed.
try_new_pipeline_filter_last == <<"timeout", "bind", "subscribe", "install_filter">>

\* Mutant: the socket is bound before the filter is installed.
try_new_pipeline_bind_first == <<"timeout", "bind", "install_filter", "subscribe">>

\* ProcessEventsConnector(socket).timeout(..)?.install_filter()?.bind()?, then
\* listener.subscribe_to_proc_events(true)?
try_new_pipeline == <<"timeout", "install_filter", "bind", "subscribe">>

\* Mutant: the socket is forgotten, not dropped.
drop_glue_leak == <<"drop_connector">>

\* Mutant: the socket is closed before the connector's Drop has run.
drop_glue_close_first == <<"drop_socket", "drop_connector">>

\* Dropping a ProcessEventsConnector runs its Drop, then drops its Socket field.
drop_glue == <<"drop_connector", "drop_socket">>

Following(seq, x, last) ==
    IF \E i \in 1..(Len(seq) - 1) : seq[i] = x
    THEN seq[1 + CHOOSE i \in 1..(Len(seq) - 1) : seq[i] = x]
    ELSE last

\* Mutant: the result of the step is discarded and construction goes on.
question_mark_ignored(step, r) ==
    [pc |-> Following(try_new_pipeline, step, "next"), pending |-> NoError]

\* The ? after each step: go on when the call succeeded, else return its error,
\* which drops the connector the step had taken by value.
question_mark(step, r) ==
    IF r = "ok"
    THEN [pc |-> Following(try_new_pipeline, step, "next"), pending |-> NoError]
    ELSE [pc |-> drop_glue[1], pending |-> last_os_error(r)]

PipelineStep(step, op, arg, r) ==
    /\ pc = step
    /\ ffi_call(op, arg, r)
    /\ pc' = question_mark(step, r).pc
    /\ pending' = question_mark(step, r).pending
    /\ tryNew' = IF pc' = "next" THEN [kind |-> "ok"] ELSE tryNew

\* Socket::try_new(PF_NETLINK, SOCK_DGRAM, NETLINK_CONNECTOR)?
SocketTryNew ==
    \E r \in {"ok"} \cup ErrKinds :
        /\ pc = "try_new"
        /\ ffi_call("socket", "NETLINK_CONNECTOR", r)
        /\ IF r = "ok"
           THEN /\ sock' = [sock EXCEPT !.state = "open"]
                /\ pc' = try_new_pipeline[1]
                /\ UNCHANGED tryNew
           ELSE /\ tryNew' = [kind |-> "err", error |-> last_os_error(r)]
                /\ pc' = "startup_failed"
                /\ UNCHANGED sock
        /\ UNCHANGED <<endian, args, budget, calc, registry, out, msg, vm, pending, queue, stop, item, log, exit, failure>>

Timeout ==
    \E r \in {"ok"} \cup ErrKinds :
        /\ PipelineStep("timeout", "setsockopt", <<"SO_RCVTIMEO", RCVTIMEO_SECS>>, r)
        /\ sock' = IF r = "ok" THEN [sock EXCEPT !.rcvtimeo = RCVTIMEO_SECS] ELSE sock
        /\ UNCHANGED <<endian, args, budget, calc, registry, out, msg, vm, queue, stop, item, log, exit, failure>>

\* The kernel's side of a successful SO_ATTACH_FILTER: from now on the
\* program decides what the socket queues; passes is what it lets through of
\* the datagrams of Traffic (a function of the datagram alone, so it is
\* worked out once).
Attach(sk, prog) ==
    [sk EXCEPT !.attached = TRUE,
               !.passes = {m \in Traffic : FilterAccepts(prog, MsgBytes(endian, m))}]

InstallFilter ==
    \E r \in {"ok"} \cup ErrKinds :
        /\ PipelineStep("install_filter", "setsockopt", <<"SO_ATTACH_FILTER", Len(filter(endian))>>, r)
        /\ sock' = IF r = "ok" THEN Attach(sock, filter(endian)) ELSE sock
        /\ UNCHANGED <<endian, args, budget, calc, registry, out, msg, vm, queue, stop, item, log, exit, failure>>

Bind ==
    \E r \in {"ok"} \cup ErrKinds :
        /\ PipelineStep("bind", "bind", [nl_pid |-> 0, nl_groups |-> CN_IDX_PROC], r)
        /\ sock' = IF r = "ok" THEN [sock EXCEPT !.groups = CN_IDX_PROC] ELSE sock
        /\ UNCHANGED <<endian, args, budget, calc, registry, out, msg, vm, queue, stop, item, log, exit, failure>>

Subscribe ==
    \E r \in {"ok"} \cup ErrKinds :
        /\ PipelineStep("subscribe", "send", subscribe_datagram(endian, TRUE), r)
        /\ UNCHANGED <<endian, args, budget, calc, registry, out, msg, vm, sock, queue, stop, item, log, exit, failure>>

(***************************************************************************)
(* The drops: impl Drop for ProcessEventsConnector, impl Drop for Socket.  *)
(***************************************************************************)
\* What follows the drop of the connector: try_new returns the pending error,
\* or main returns Ok(()).
AfterDrop(step) ==
    LET to == Following(drop_glue, step, "dropped")
    IN  IF to # "dropped"
        THEN pc' = to /\ UNCHANGED <<tryNew, exit>>
        ELSE IF pending # NoError
             THEN /\ pc' = "startup_failed"
                  /\ tryNew' = [kind |-> "err", error |-> pending]
                  /\ UNCHANGED exit
             ELSE /\ pc' = "exit"
                  /\ exit' = "success"
                  /\ UNCHANGED tryNew

DropConnector ==
    \E r \in {"ok"} \cup ErrKinds :
        /\ pc = "drop_connector"
        /\ ffi_call("send", subscribe_datagram(endian, FALSE), r)
        /\ log' = IF r = "ok" THEN log
                  ELSE Append(log, [what |-> "unsubscribing", error |-> last_os_error(r)])
        /\ AfterDrop("drop_connector")
        /\ UNCHANGED <<endian, args, budget, calc, registry, out, msg, vm, sock, pending, queue, stop, item, failure>>

DropSocket ==
    \E r \in {"ok"} \cup ErrKinds :
        /\ pc = "drop_socket"
        /\ ffi_call("close", "fd", r)
        /\ sock' = [sock EXCEPT !.state = "closed"]
        /\ queue' = << >>
        /\ log' = IF r = "ok" THEN log
                  ELSE Append(log, [what |-> "closing", error |-> last_os_error(r)])
        /\ AfterDrop("drop_socket")
        /\ UNCHANGED <<endian, args, budget, calc, registry, out, msg, vm, pending, stop, item, failure>>

(***************************************************************************)
(* solver/workflow.rs: the name of the file a process executes.  A string  *)
(* is the sequence of its characters.                                      *)
(***************************************************************************)
\* A let binding: the value of F at v, v being worked out once.
With(v, F(_)) == CHOOSE r \in {F(x) : x \in {v}} : TRUE

None == [some |-> FALSE]

Some(v) == [some |-> TRUE, val |-> v]

\* str::split: the pieces of s between the characters of seps; there is
\* always at least one piece.
RECURSIVE split(_, _)
split(s, seps) ==
    IF s = << >> THEN << << >> >>
    ELSE With(split(Tail(s), seps), LAMBDA rest :
            IF Head(s) \in seps THEN << << >> >> \o rest
            ELSE << <<Head(s)>> \o Head(rest) >> \o Tail(rest))

last(pieces) == pieces[Len(pieces)]

UpperCase == <<"A", "B", "C", "D", "E", "F", "G", "H", "I", "J", "K", "L", "M", "N", "O", "P", "Q", "R", "S", "T", "U", "V", "W", "X", "Y", "Z">>
LowerCase == <<"a", "b", "c", "d", "e", "f", "g", "h", "i", "j", "k", "l", "m", "n", "o", "p", "q", "r", "s", "t", "u", "v", "w", "x", "y", "z">>

to_ascii_lowercase(c) ==
    IF \E i \in 1..Len(UpperCase) : UpperCase[i] = c
    THEN LowerCase[CHOOSE i \in 1..Len(UpperCase) : UpperCase[i] = c]
    ELSE c

eq_ignore_ascii_case(a, b) ==
    /\ Len(a) = Len(b)
    /\ \A i \in 1..Len(a) : to_ascii_lowercase(a[i]) = to_ascii_lowercase(b[i])

\* Path::is_absolute, on Unix.
is_absolute(path) == path # << >> /\ path[1] = "/"

\* Path::file_name: the last component when it is a normal one; empty and
\* "." components do not count, a final ".." gives None.
file_name(path) ==
    With(SelectSeq(split(path, {"/"}), LAMBDA c : c # << >> /\ c # <<".">>), LAMBDA parts :
        IF parts = << >> \/ last(parts) = <<".", ".">> THEN None ELSE Some(last(parts)))

wine_executables ==
    << <<"w", "i", "n", "e", "-", "p", "r", "e", "l", "o", "a", "d", "e", "r">>,
       <<"w", "i", "n", "e", "6", "4", "-", "p", "r", "e", "l", "o", "a", "d", "e", "r">>,
       <<"w", "i", "n", "e">>,
       <<"w", "i", "n", "e", "6", "4">>,
       <<"w", "i", "n", "e", "l", "o", "a", "d", "e", "r">>,
       <<"w", "i", "n", "e", "l", "o", "a", "d", "e", "r", "6", "4">> >>

Contains(seq, x) == \E i \in 1..Len(seq) : seq[i] = x

is_wine_executable(cmd) ==
    /\ is_absolute(cmd)
    /\ With(file_name(cmd), LAMBDA name : name.some /\ Contains(wine_executables, name.val))

\* OsStr::to_string_lossy: a byte that is not UTF-8 ("<ff>" stands for one)
\* becomes U+FFFD ("<fffd>"); every other character is kept.
to_string_lossy(s) == [i \in 1..Len(s) |-> IF s[i] = "<ff>" THEN "<fffd>" ELSE s[i]]

\* The last path component, if its extension is exe in any case.
get_wine_exe_from_path(cmd) ==
    With(last(split(to_string_lossy(cmd), {"\\", "/"})), LAMBDA app_name :
        With(last(split(app_name, {"."})), LAMBDA extension :
            IF eq_ignore_ascii_case(extension, <<"e", "x", "e">>)
            THEN Some(app_name) ELSE None))

RECURSIVE skip_while_wine(_)
skip_while_wine(cmdline) ==
    IF cmdline # << >> /\ is_wine_executable(Head(cmdline))
    THEN skip_while_wine(Tail(cmdline))
    ELSE cmdline

\* Mutant: the last argument is taken, not the first after the loaders.
wine_executed_file_name_last_arg(cmdline) ==
    With(skip_while_wine(cmdline), LAMBDA rest :
        IF rest = << >> THEN None ELSE get_wine_exe_from_path(last(rest)))

\* skip_while(is_wine_executable).take(1).flat_map(get_wine_exe_from_path).last()
wine_executed_file_name(cmdline) ==
    With(skip_while_wine(cmdline), LAMBDA rest :
        IF rest = << >> THEN None ELSE get_wine_exe_from_path(Head(rest)))

\* Mutant: the command line is searched whatever the executable is.
get_process_executed_file_any_exe(pexe, cmdline) ==
    With(wine_executed_file_name(cmdline), LAMBDA name :
        IF name.some THEN name.val ELSE pexe)

get_process_executed_file(pexe, cmdline) ==
    IF Contains(wine_executables, pexe)
    THEN With(wine_executed_file_name(cmdline), LAMBDA name :
            IF name.some THEN name.val ELSE pexe)
    ELSE pexe

(***************************************************************************)
(* connector.rs, Iter::next, and main.rs: the loop around it.              *)
(***************************************************************************)
PullMsgSize == nlmsg_length(size_of(cn_msg) + size_of(proc_event))

\* The field of a received datagram at offset off, size bytes, in a zeroed
\* buffer of PullMsgSize bytes, read through the structure overlay.
Field(e, bytes, off, size) ==
    LET buffer == bytes \o Zeros(PullMsgSize - Len(bytes))
    IN  host_value(e, SubSeq(buffer, off + 1, off + size))

\* Mutant: the id of the thread-group leader is reported.
decode_leader(e, bytes) ==
    LET event == nlmsg_length(0) + offset_of(cn_msg, "data")
        what == Field(e, bytes, event + offset_of(proc_event, "what"), 4)
        data == event + offset_of(proc_event, "event_data")
    IN  CASE what = PROCESS_EVENT_EXEC ->
                [kind |-> "Exec",
                 pid |-> Field(e, bytes, data + offset_of(ExecProcEvent, "process_tgid"), 4)]
          [] what = PROCESS_EVENT_EXIT ->
                [kind |-> "Exit",
                 pid |-> Field(e, bytes, data + offset_of(ExitProcEvent, "process_tgid"), 4)]
          [] OTHER -> [kind |-> "none"]

\* match (*event).what: the event read through the overlay of the buffer.
decode(e, bytes) ==
    LET event == nlmsg_length(0) + offset_of(cn_msg, "data")
        what == Field(e, bytes, event + offset_of(proc_event, "what"), 4)
        data == event + offset_of(proc_event, "event_data")
    IN  CASE what = PROCESS_EVENT_EXEC ->
                [kind |-> "Exec",
                 pid |-> Field(e, bytes, data + offset_of(ExecProcEvent, "process_pid"), 4)]
          [] what = PROCESS_EVENT_EXIT ->
                [kind |-> "Exit",
                 pid |-> Field(e, bytes, data + offset_of(ExitProcEvent, "process_pid"), 4)]
          [] OTHER -> [kind |-> "none"]

\* Mutant: a receive timeout is reported as a failed item.
on_receive_error_no_timeout(r) ==
    [kind |-> "err", error |-> last_os_error(r)]

\* Mutant: every receive failure is swallowed.
on_receive_error_silent(r) ==
    [kind |-> "none"]

\* match error.kind() { WouldBlock => None, _ => Some(Err(error)) }
on_receive_error(r) ==
    IF r = "WouldBlock" THEN [kind |-> "none"]
    ELSE [kind |-> "err", error |-> last_os_error(r)]

IterNext ==
    /\ pc = "next"
    /\ Cardinality(Calls("recv")) < MaxPulls
    /\ \/ /\ queue # << >>
          /\ ffi_call("recv", PullMsgSize, "ok")
          /\ item' = decode(endian, MsgBytes(endian, Head(queue)))
          /\ queue' = Tail(queue)
       \/ \E r \in RecvErrKinds :
            /\ r = "WouldBlock" => queue = << >>
            /\ ffi_call("recv", PullMsgSize, r)
            /\ item' = on_receive_error(r)
            /\ UNCHANGED queue
    /\ pc' = "handle"
    /\ UNCHANGED <<endian, args, budget, calc, registry, out, msg, vm, sock, pending, tryNew, stop, log, exit, failure>>

(***************************************************************************)
(* main.rs: what the loop does with an item.  The reads of /proc and the   *)
(* writes to stdout are calls like the socket's: they go to the trace, and *)
(* the error of a failed one names its place there.                        *)
(***************************************************************************)
\* What /proc/<pid>/exe and /proc/<pid>/cmdline hold for a process that
\* called exec: a shell or wine with a Windows program, in turn; the odd
\* pids begin with the shell, the even ones with wine.
ExecsRead(pid) ==
    Cardinality({i \in 1..Len(trace) :
        trace[i].op = "exe_reader" /\ trace[i].arg = pid /\ trace[i].res = "ok"})

ProcFs(pid) ==
    IF (pid[4] + ExecsRead(pid)) % 2 = 1
    THEN [exe |-> <<"s", "h">>, cmdline |-> <<<<"/", "b", "i", "n", "/", "s", "h">>>>]
    ELSE [exe |-> <<"w", "i", "n", "e">>, cmdline |-> <<<<"/", "u", "s", "r", "/", "b", "i", "n", "/", "w", "i", "n", "e">>, <<"C", ":", "\\", "a", ".", "e", "x", "e">>>>]

ProcErrKinds == {"NotFound"}

WriteErrKinds == {"BrokenPipe"}

Ok(v) == [kind |-> "ok", val |-> v]

Err(r, call) == [kind |-> "err", error |-> [kind |-> r, call |-> call]]

call(op, arg, r) == [op |-> op, arg |-> arg, res |-> r]

\* Mutant: an entry that is there already is kept.
insert_if_absent(reg, pid, exe) ==
    [p \in DOMAIN reg \cup {pid} |-> IF p \in DOMAIN reg THEN reg[p] ELSE exe]

\* HashMap::insert
insert(reg, pid, exe) == [p \in DOMAIN reg \cup {pid} |-> IF p = pid THEN exe ELSE reg[p]]

remove(reg, pid) == [p \in DOMAIN reg \ {pid} |-> reg[p]]

\* cmdline_reader(pid)?, exe_reader(pid)?, then the name goes to the
\* registry and to the line, followed by the command line under -c.
\* rc and re are how the two reads end, n the number of calls so far.
handle_exec_event(pid, reg, rc, re, n) ==
    IF rc # "ok"
    THEN [calls |-> <<call("cmdline_reader", pid, rc)>>, registry |-> reg,
          result |-> Err(rc, n + 1)]
    ELSE IF re # "ok"
    THEN [calls |-> <<call("cmdline_reader", pid, rc), call("exe_reader", pid, re)>>,
          registry |-> reg, result |-> Err(re, n + 2)]
    ELSE LET f == ProcFs(pid)
         IN  With(get_process_executed_file(f.exe, f.cmdline), LAMBDA exe :
                [calls |-> <<call("cmdline_reader", pid, rc), call("exe_reader", pid, re)>>,
                 registry |-> insert(reg, pid, exe),
                 result |-> Ok(Some(IF args.cmdline THEN <<exe, f.cmdline>> ELSE <<exe>>))])

\* Mutant: an Exit of a pid that is not registered yields a line with an
\* empty name.
handle_exit_event_unknown_line(pid, reg) ==
    [calls |-> << >>, registry |-> remove(reg, pid),
     result |-> Ok(Some(IF pid \in DOMAIN reg THEN <<reg[pid]>> ELSE << << >> >>))]

\* Ok(process_registry.remove(&pid).map(|exe| exe.to_string()))
handle_exit_event(pid, reg) ==
    [calls |-> << >>, registry |-> remove(reg, pid),
     result |-> Ok(IF pid \in DOMAIN reg THEN Some(<<reg[pid]>>) ELSE None)]

\* The line is "<event> <event_line>".
handle_event(event, reg, rc, re, n) ==
    LET h == IF event.kind = "Exec" THEN handle_exec_event(event.pid, reg, rc, re, n)
             ELSE handle_exit_event(event.pid, reg)
    IN  IF h.result.kind = "ok" /\ h.result.val.some
        THEN [h EXCEPT !.result = Ok(Some([event |-> event, text |-> h.result.val.val]))]
        ELSE h

\* Some(line): the colour is set unless --no-color (a failure is logged),
\* then the line is written; None: nothing.
print_output_line(line, rcol, rw, n) ==
    IF ~line.some THEN [calls |-> << >>, logs |-> << >>, out |-> << >>, result |-> Ok(0)]
    ELSE LET colour == IF args.nocolor THEN << >>
                       ELSE <<call("set_color", line.val.event.kind, rcol)>>
             c == Len(colour)
         IN  [calls |-> colour \o <<call("writeln", line.val, rw)>>,
              logs |-> IF c = 1 /\ rcol # "ok"
                       THEN <<[what |-> "output color", error |-> [kind |-> rcol, call |-> n + 1]]>>
                       ELSE << >>,
              out |-> IF rw = "ok" THEN <<line.val>> ELSE << >>,
              result |-> IF rw = "ok" THEN Ok(0) ELSE Err(rw, n + c + 1)]

\* Mutant: the error of the chain is dropped without a word.
log_error_silent(result) == << >>

\* if let Err(e) = ... { log::error!("{}", e); }
log_error(result) ==
    IF result.kind = "err" THEN <<[what |-> "event", error |-> result.error]>> ELSE << >>

\* How a read of /proc or a write to stdout may end.
Outcomes(kinds) == IF budget > 0 THEN {"ok"} \cup kinds ELSE {"ok"}

Failed(calls) == Cardinality({i \in 1..Len(calls) : calls[i].res # "ok"})

\* if let Some(event) = event.next() { if let Err(e) = event
\*     .and_then(handle_event).and_then(print_output_line) { log::error!(e) } }
\* h is what handle_event returns, p what print_output_line returns.
HandleItem ==
    /\ pc = "handle"
    /\ \E rc, re \in Outcomes(ProcErrKinds), rcol, rw \in Outcomes(WriteErrKinds) :
       \E h \in {IF item.kind \in {"Exec", "Exit"}
                 THEN handle_event(item, registry, rc, re, Len(trace))
                 ELSE [calls |-> << >>, registry |-> registry,
                       result |-> IF item.kind = "err" THEN item ELSE Ok(None)]} :
       \E p \in {IF h.result.kind = "ok"
                 THEN print_output_line(h.result.val, rcol, rw, Len(trace) + Len(h.calls))
                 ELSE [calls |-> << >>, logs |-> << >>, out |-> << >>, result |-> h.result]} :
       \E failed \in {Failed(h.calls \o p.calls)} :
          /\ failed <= budget
          /\ budget' = budget - failed
          /\ trace' = trace \o h.calls \o p.calls
          /\ registry' = h.registry
          /\ out' = out \o p.out
          /\ log' = log \o p.logs \o log_error(p.result)
    /\ pc' = "check_stop"
    /\ UNCHANGED <<endian, args, calc, msg, vm, sock, pending, tryNew, queue, stop, item, exit, failure>>

\* Mutant: the flag is not looked at and the loop goes on.
CheckStop_no_break ==
    /\ pc = "check_stop"
    /\ pc' = "next"
    /\ UNCHANGED <<endian, args, budget, calc, registry, out, msg, vm, sock, trace, pending, tryNew, queue, stop, item, log, exit, failure>>

\* if stop.load(..) { break; }  then Ok(()), which drops data_source.
CheckStop ==
    /\ pc = "check_stop"
    /\ pc' = IF stop THEN drop_glue[1] ELSE "next"
    /\ UNCHANGED <<endian, args, budget, calc, registry, out, msg, vm, sock, trace, pending, tryNew, queue, stop, item, log, exit, failure>>

\* The Ctrl-C handler, installed before the connector is created.
CtrlC ==
    /\ exit = "none"
    /\ ~stop
    /\ stop' = TRUE
    /\ UNCHANGED <<endian, args, budget, calc, registry, out, msg, vm, pc, sock, trace, pending, tryNew, queue, item, log, exit, failure>>

\* anyhow's context: a message laid over an error.
context(text) == [context |-> text]

\* Mutant: every failure is explained as a lack of privilege.
create_events_source_always_root(result) ==
    IF result.kind = "ok" THEN result
    ELSE [kind |-> "err",
          chain |-> <<context("Couldn't create process events source")>>
                    \o <<context("The program was started without root privileges")>>
                    \o <<result.error>>]

\* try_new().map_err(..).context(..): the I/O error stays at the bottom of
\* the chain; PermissionDenied gets the privilege message above it; the
\* outer context is put on top of either.
create_events_source(result) ==
    IF result.kind = "ok" THEN result
    ELSE [kind |-> "err",
          chain |-> <<context("Couldn't create process events source")>>
                    \o (IF result.error.kind = "PermissionDenied"
                        THEN <<context("The program was started without root privileges")>>
                        ELSE << >>)
                    \o <<result.error>>]

\* create_events_source()? in main: the error ends main.
StartupFailed ==
    /\ pc = "startup_failed"
    /\ pc' = "exit"
    /\ exit' = "failure"
    /\ failure' = create_events_source(tryNew).chain
    /\ UNCHANGED <<endian, args, budget, calc, registry, out, msg, vm, sock, trace, pending, tryNew, queue, stop, item, log>>

(***************************************************************************)
(* The kernel: a datagram sent to the CN_IDX_PROC group reaches the socket *)
(* if the socket is a member of the group, the attached program (if any)   *)
(* does not return 0, and the receive queue has room.                      *)
(***************************************************************************)
KernelDeliver ==
    \E m \in Traffic :
        /\ sock.state = "open"
        /\ sock.groups = CN_IDX_PROC
        /\ Len(queue) < MaxQueue
        /\ sock.attached => m \in sock.passes
        /\ queue' = Append(queue, m)
        /\ UNCHANGED <<endian, args, budget, calc, registry, out, msg, vm, pc, sock, trace, pending, tryNew, stop, item, log, exit, failure>>

Init ==
    /\ endian \in Endians
    /\ args = NoArgs
    /\ budget = 0
    /\ calc = NoCalc
    /\ msg = NoMsg
    /\ vm = VmStart(<< >>)
    /\ ConnInit

Next ==
    \/ SocketTryNew \/ Timeout \/ InstallFilter \/ Bind \/ Subscribe
    \/ IterNext \/ HandleItem \/ CheckStop \/ CtrlC
    \/ DropConnector \/ DropSocket \/ StartupFailed
    \/ KernelDeliver

Spec == Init /\ [][Next]_vars

(***************************************************************************)
(* FilterSpec: the kernel running the attached program on one datagram,    *)
(* one instruction per step.                                               *)
(***************************************************************************)
FilterInit ==
    /\ endian \in Endians
    /\ args = NoArgs
    /\ budget = 0
    /\ calc = NoCalc
    /\ msg \in Messages
    /\ vm = VmStart(filter(endian))
    /\ ConnInit

VmExec(class) ==
    /\ InsClass(vm) = class
    /\ vm' = BpfStep(MsgBytes(endian, msg), vm)
    /\ UNCHANGED <<endian, args, budget, calc, msg>>
    /\ UNCHANGED connVars

VmLoad == VmExec("ld")

VmStore == VmExec("st")

VmLoadX == VmExec("ldx")

VmJump == VmExec("jmp")

VmRet == VmExec("ret")

FilterNext == VmLoad \/ VmStore \/ VmLoadX \/ VmJump \/ VmRet

\* The kernel runs the program to its end on every datagram.
FilterSpec == FilterInit /\ [][FilterNext]_vars /\ WF_vars(FilterNext)

(***************************************************************************)
(* PullSpec: Iter::next taken alone, on a connector whose socket holds any *)
(* one datagram of Messages, as if no filter stood before the decoder.     *)
(***************************************************************************)
PullInit ==
    /\ endian \in Endians
    /\ args = NoArgs
    /\ budget = 0
    /\ calc = NoCalc
    /\ msg \in Messages
    /\ vm = VmStart(filter(endian))
    /\ pc = "next"
    /\ sock = [state |-> "open", rcvtimeo |-> RCVTIMEO_SECS, attached |-> FALSE,
               passes |-> {}, groups |-> CN_IDX_PROC]
    /\ trace = << >>
    /\ pending = NoError
    /\ tryNew = [kind |-> "ok"]
    /\ queue = <<msg>>
    /\ stop = FALSE
    /\ item = [kind |-> "none"]
    /\ log = << >>
    /\ exit = "none"
    /\ registry = EmptyRegistry
    /\ out = << >>
    /\ failure = << >>

PullNext == IterNext

PullSpec == PullInit /\ [][PullNext]_vars

(***************************************************************************)
(* LoopSpec: the loop of main from a connector that try_new has returned,  *)
(* with some processes registered already, a datagram waiting or none, any *)
(* flags, and reads of /proc and writes to stdout that may fail.           *)
(***************************************************************************)
\* The name main registers for a process of the /proc above.
NameOf(pid) == get_process_executed_file(ProcFs(pid).exe, ProcFs(pid).cmdline)

Registries == {[p \in known |-> NameOf(p)] : known \in SUBSET Pids}

\* The calls of a try_new whose five steps succeeded.
ConstructionCalls ==
    << call("socket", "NETLINK_CONNECTOR", "ok"),
       call("setsockopt", <<"SO_RCVTIMEO", RCVTIMEO_SECS>>, "ok"),
       call("setsockopt", <<"SO_ATTACH_FILTER", Len(filter(endian))>>, "ok"),
       call("bind", [nl_pid |-> 0, nl_groups |-> CN_IDX_PROC], "ok"),
       call("send", subscribe_datagram(endian, TRUE), "ok") >>

LoopInit ==
    /\ endian \in Endians
    /\ args \in Args
    /\ budget = MaxFaults
    /\ calc = NoCalc
    /\ msg = NoMsg
    /\ vm = VmStart(<< >>)
    /\ pc = "next"
    /\ sock = Attach([state |-> "open", rcvtimeo |-> RCVTIMEO_SECS, attached |-> FALSE,
                      passes |-> {}, groups |-> CN_IDX_PROC], filter(endian))
    /\ trace = ConstructionCalls
    /\ pending = NoError
    /\ tryNew = [kind |-> "ok"]
    /\ queue \in {<< >>} \cup {<<m>> : m \in sock.passes}
    /\ stop = FALSE
    /\ item = [kind |-> "none"]
    /\ log = << >>
    /\ exit = "none"
    /\ registry \in Registries
    /\ out = << >>
    /\ failure = << >>

LoopNext == IterNext \/ HandleItem \/ CheckStop \/ CtrlC

LoopSpec == LoopInit /\ [][LoopNext]_vars

(***************************************************************************)
(* MainSpec: main from the entry of its loop to its return: the loop, then *)
(* the drop of the connector and of its socket.  main is one thread that   *)
(* is always scheduled, and a receive returns within the timeout, so the   *)
(* steps of main are taken as long as one is possible; the interrupt may   *)
(* come at any time or never.                                              *)
(***************************************************************************)
\* let mut process_registry = HashMap::new(); create_events_source()?
MainInit == LoopInit /\ registry = EmptyRegistry

MainStep == IterNext \/ HandleItem \/ CheckStop \/ DropConnector \/ DropSocket

MainNext == MainStep \/ CtrlC

MainSpec == MainInit /\ [][MainNext]_vars /\ WF_vars(MainStep)

(***************************************************************************)
(* RegistrySpec: the loop of main from its entry, the registry empty, for  *)
(* as long as no interrupt comes; a datagram that the filter lets through  *)
(* arrives while main waits in a receive, or none does; reads of /proc and *)
(* writes to stdout may fail.                                              *)
(***************************************************************************)
RegistryInit == MainInit /\ queue = << >>

\* KernelDeliver, at the time main is about to receive from an empty queue.
Arrival == pc = "next" /\ queue = << >> /\ KernelDeliver

RegistryNext == IterNext \/ HandleItem \/ CheckStop \/ Arrival

RegistrySpec == RegistryInit /\ [][RegistryNext]_vars

(***************************************************************************)
(* LengthSpec: cnproc.rs, nlmsg_length called with a payload size.         *)
(***************************************************************************)
LengthInit ==
    /\ endian \in Endians
    /\ args = NoArgs
    /\ budget = 0
    /\ calc \in {[fn |-> "call", arg |-> n, result |-> 0] : n \in 0..MaxPayload}
    /\ msg = NoMsg
    /\ vm = VmStart(filter(endian))
    /\ ConnInit

NlmsgLength ==
    /\ calc.fn = "call"
    /\ calc' = [fn |-> "nlmsg_length", arg |-> calc.arg, result |-> nlmsg_length(calc.arg)]
    /\ UNCHANGED <<endian, args, budget, msg, vm>>
    /\ UNCHANGED connVars

LengthNext == NlmsgLength

LengthSpec == LengthInit /\ [][LengthNext]_vars

(***************************************************************************)
(* SolverSpec: solver/workflow.rs, each function called with an executable *)
(* name and a command line, or a path, of the sets below.                  *)
(***************************************************************************)
\* Names /proc/<pid>/exe may end in: a shell, three of the loaders, and a
\* name that differs from a loader's by case only.
ExeNames ==
    { <<"s", "h">>,
      <<"w", "i", "n", "e">>,
      <<"w", "i", "n", "e", "6", "4">>,
      <<"w", "i", "n", "e", "-", "p", "r", "e", "l", "o", "a", "d", "e", "r">>,
      <<"W", "i", "n", "e">> }

\* Where an argument may point: the working directory, a Unix directory, a
\* Windows drive.
Prefixes == { << >>, <<"/", "b", "/">>, <<"C", ":", "\\">> }

\* Last components: two loaders, programs with the exe extension in two
\* cases, one with a byte that is not UTF-8, another extension, the bare
\* word exe, and nothing (the path ends in a separator).
Components ==
    { <<"w", "i", "n", "e">>,
      <<"w", "i", "n", "e", "6", "4">>,
      <<"a", ".", "e", "x", "e">>,
      <<"b", ".", "E", "x", "E">>,
      <<"<ff>", ".", "e", "x", "e">>,
      <<"a", ".", "t", "x", "t">>,
      <<"e", "x", "e">>,
      << >> }

Paths == {pre \o c : pre \in Prefixes, c \in Components}

\* The command lines of at most n arguments.
RECURSIVE CmdLines(_)
CmdLines(n) ==
    IF n = 0 THEN {<< >>}
    ELSE CmdLines(n - 1) \cup {<<p>> \o c : p \in Paths, c \in {c \in CmdLines(n - 1) : Len(c) = n - 1}}

SolverCalls ==
    {[f |-> "get_process_executed_file", pexe |-> e, cmdline |-> c] :
        e \in ExeNames, c \in CmdLines(MaxArgs)}
    \cup {[f |-> "wine_executed_file_name", cmdline |-> c] : c \in CmdLines(MaxArgs)}
    \cup {[f |-> "get_wine_exe_from_path", cmd |-> p] : p \in Paths}

SolverInit ==
    /\ endian = "little"
    /\ args = NoArgs
    /\ budget = 0
    /\ calc \in {[fn |-> "call", arg |-> a, result |-> 0] : a \in SolverCalls}
    /\ msg = NoMsg
    /\ vm = VmStart(<< >>)
    /\ ConnInit

Returns(f, result) ==
    /\ calc.fn = "call" /\ calc.arg.f = f
    /\ calc' = [fn |-> f, arg |-> calc.arg, result |-> result]
    /\ UNCHANGED <<endian, args, budget, msg, vm>>
    /\ UNCHANGED connVars

GetProcessExecutedFile ==
    /\ calc.fn = "call" /\ calc.arg.f = "get_process_executed_file"
    /\ Returns("get_process_executed_file",
               get_process_executed_file(calc.arg.pexe, calc.arg.cmdline))

WineExecutedFileName ==
    /\ calc.fn = "call" /\ calc.arg.f = "wine_executed_file_name"
    /\ Returns("wine_executed_file_name", wine_executed_file_name(calc.arg.cmdline))

GetWineExeFromPath ==
    /\ calc.fn = "call" /\ calc.arg.f = "get_wine_exe_from_path"
    /\ Returns("get_wine_exe_from_path", get_wine_exe_from_path(calc.arg.cmd))

SolverNext == GetProcessExecutedFile \/ WineExecutedFileName \/ GetWineExeFromPath

SolverSpec == SolverInit /\ [][SolverNext]_vars

(***************************************************************************)
(* The filter program: claims C1 to C7, under FilterSpec.                  *)
(***************************************************************************)
Returned == vm.status = "ret"

\* The datagram carries a whole proc_event.
HasEvent == msg.size = EventMsgSize

HeaderChecksPass ==
    /\ msg.nlmsg_pid = W32(0)
    /\ msg.nlmsg_type = W16(NLMSG_DONE)
    /\ msg.idx = W32(CN_IDX_PROC)
    /\ msg.val = W32(CN_VAL_PROC)

\* C1: a datagram that passes the header checks and whose kind is
\* PROCESS_EVENT_EXEC is accepted (0xffffffff) when exec.process_pid equals
\* exec.process_tgid and rejected (0) when they differ.
C1_ExecLeaderOnly ==
    (Returned /\ HasEvent /\ HeaderChecksPass /\ msg.what = PROCESS_EVENT_EXEC)
        => vm.ret = (IF msg.pid = msg.tgid THEN ACCEPT ELSE REJECT)

C1_Witness ==
    /\ Returned /\ HasEvent /\ HeaderChecksPass /\ msg.what = PROCESS_EVENT_EXEC
    /\ msg.pid = msg.tgid /\ vm.ret = ACCEPT /\ endian = "little"

\* C2: a datagram that passes the header checks and whose kind is
\* PROCESS_EVENT_EXIT is accepted when exit.process_pid equals
\* exit.process_tgid and rejected when they differ.
C2_ExitLeaderOnly ==
    (Returned /\ HasEvent /\ HeaderChecksPass /\ msg.what = PROCESS_EVENT_EXIT)
        => vm.ret = (IF msg.pid = msg.tgid THEN ACCEPT ELSE REJECT)

C2_Witness ==
    /\ Returned /\ HasEvent /\ HeaderChecksPass /\ msg.what = PROCESS_EVENT_EXIT
    /\ msg.pid # msg.tgid /\ vm.ret = REJECT /\ endian = "little"

\* C3: a datagram whose kind is neither PROCESS_EVENT_EXEC nor
\* PROCESS_EVENT_EXIT is rejected, whatever its id fields and header fields.
C3_OtherKindsRejected ==
    (Returned /\ msg.what \notin {PROCESS_EVENT_EXEC, PROCESS_EVENT_EXIT})
        => vm.ret = REJECT

C3_Witness ==
    /\ Returned /\ HasEvent /\ HeaderChecksPass /\ msg.what = PROCESS_EVENT_FORK
    /\ msg.pid = msg.tgid /\ vm.ret = REJECT

IsJump(ins) == ins.code \in {BPF_JMP + BPF_JEQ + BPF_K, BPF_JMP + BPF_JEQ + BPF_X}

\* C4: for every compare-and-branch instruction at index i of the program,
\* i + 1 + jt and i + 1 + jf are both less than the program length.
C4_BranchTargetsInProgram ==
    \A i \in 0..(Len(vm.prog) - 1) :
        IsJump(vm.prog[i + 1])
            => /\ i + 1 + vm.prog[i + 1].jt < Len(vm.prog)
               /\ i + 1 + vm.prog[i + 1].jf < Len(vm.prog)

\* The longest skip of the program has been taken and landed on the last instruction.
C4_Witness ==
    /\ vm.status = "run" /\ vm.pc = Len(vm.prog) - 1
    /\ HasEvent /\ HeaderChecksPass /\ msg.what = PROCESS_EVENT_EXEC /\ msg.pid # msg.tgid

\* C5: on every datagram the program counter strictly increases at each
\* step, execution never runs off the end of the program, and it reaches a
\* RET that returns 0 or 0xffffffff after at most program-length steps.
C5_Total ==
    /\ [](/\ vm.status \in {"run", "ret"}
          /\ vm.status = "run" => vm.pc < Len(vm.prog)
          /\ vm.steps <= Len(vm.prog)
          /\ Returned => vm.ret \in {REJECT, ACCEPT})
    /\ [][/\ vm'.steps = vm.steps + 1
          /\ vm'.status = "run" => vm'.pc > vm.pc]_vm
    /\ <>Returned

\* The longest run: an exit event of a process that is not a thread-group leader.
C5_Witness ==
    /\ Returned /\ vm.steps > Len(filter_accept_exec(endian)) + Len(filter_accept_exit(endian))
    /\ HasEvent /\ msg.what = PROCESS_EVENT_EXIT

\* C6: a datagram whose nlmsg_pid is not 0, or whose nlmsg_type is not
\* NLMSG_DONE, is rejected whatever the rest of it holds, and the type check
\* is reached only when the nlmsg_pid check passed.
C6_OuterHeaderChecked ==
    /\ (Returned /\ (msg.nlmsg_pid # W32(0) \/ msg.nlmsg_type # W16(NLMSG_DONE)))
            => vm.ret = REJECT
    /\ vm.pc >= Len(filter_from_kernel(endian)) => msg.nlmsg_pid = W32(0)

C6_Witness ==
    /\ Returned /\ vm.ret = REJECT /\ HasEvent
    /\ msg.nlmsg_pid = W32(0) /\ msg.nlmsg_type = swap_bytes(W16(NLMSG_DONE))
    /\ msg.idx = W32(CN_IDX_PROC) /\ msg.val = W32(CN_VAL_PROC)
    /\ msg.what = PROCESS_EVENT_EXEC /\ msg.pid = msg.tgid

EventKindBranch ==
    Len(filter_from_kernel(endian)) + Len(filter_msg_type(endian))
        + Len(filter_cn_idx(endian)) + Len(filter_cn_val(endian))

\* C7: a datagram whose classifier pair differs from (CN_IDX_PROC,
\* CN_VAL_PROC) in either component is rejected, even an EXEC or EXIT event of
\* a thread-group leader, and the event-kind branch is reached only when both
\* components matched.
C7_ClassifierChecked ==
    /\ (Returned /\ (msg.idx # W32(CN_IDX_PROC) \/ msg.val # W32(CN_VAL_PROC)))
            => vm.ret = REJECT
    /\ vm.pc >= EventKindBranch
            => (msg.idx = W32(CN_IDX_PROC) /\ msg.val = W32(CN_VAL_PROC))

C7_Witness ==
    /\ Returned /\ vm.ret = REJECT /\ HasEvent
    /\ msg.nlmsg_pid = W32(0) /\ msg.nlmsg_type = W16(NLMSG_DONE)
    /\ msg.idx = W32(CN_IDX_PROC) /\ msg.val = swap_bytes(W32(CN_VAL_PROC))
    /\ msg.what = PROCESS_EVENT_EXIT /\ msg.pid = msg.tgid /\ endian = "little"

(***************************************************************************)
(* Construction and release: claims C8 to C10, under Spec.                 *)
(***************************************************************************)
\* The call t is the i-th step of the construction pipeline.
IsPipelineCall(t, i) ==
    CASE i = 1 -> t.op = "socket"
      [] i = 2 -> t.op = "setsockopt" /\ t.arg[1] = "SO_RCVTIMEO" /\ t.arg[2] = 3
      [] i = 3 -> t.op = "setsockopt" /\ t.arg[1] = "SO_ATTACH_FILTER"
      [] i = 4 -> t.op = "bind" /\ t.arg.nl_groups = CN_IDX_PROC
      [] i = 5 -> t.op = "send" /\ t.arg = subscribe_datagram(endian, TRUE)

PipelineCalls == {i \in 1..Len(trace) : \E k \in 1..5 : IsPipelineCall(trace[i], k)}

FailedSteps == {i \in PipelineCalls : trace[i].res # "ok"}

Opened == trace # << >> /\ trace[1].op = "socket" /\ trace[1].res = "ok"

\* C8: try_new issues open, set receive timeout (3 s), attach filter, bind to
\* CN_IDX_PROC, send subscribe, in that order; a step is issued only if every
\* earlier one succeeded; try_new returns a connector only when all five did.
C8_PipelineOrder ==
    LET n == Cardinality(PipelineCalls)
    IN  /\ n <= 5
        /\ \A i \in 1..n :
              /\ IsPipelineCall(trace[i], i)
              /\ i < n => trace[i].res = "ok"
        /\ tryNew.kind = "ok" => (n = 5 /\ trace[5].res = "ok")

C8_Witness ==
    /\ tryNew.kind = "ok" /\ pc = "next"
    /\ Len(trace) = 5 /\ \A i \in 1..5 : IsPipelineCall(trace[i], i) /\ trace[i].res = "ok"
    /\ sock.rcvtimeo = 3 /\ sock.attached /\ sock.groups = CN_IDX_PROC

\* C9: if a construction step fails, try_new returns that step's error and no
\* connector, no later pipeline step is issued, and a socket that had been
\* opened is closed before try_new returns; if the open fails, no other socket
\* call is issued at all.
C9_AllOrNothing ==
    /\ \A i \in FailedSteps :
          /\ tryNew.kind # "ok"
          /\ pc \notin {"next", "handle", "check_stop"} /\ Calls("recv") = {}
          /\ \A j \in PipelineCalls : j <= i
          /\ i = 1 => Len(trace) = 1
          /\ pc \in {"startup_failed", "exit"}
                => tryNew = [kind |-> "err", error |-> [kind |-> trace[i].res, call |-> i]]
    /\ tryNew.kind = "err"
          => /\ FailedSteps # {}
             /\ Opened => (sock.state = "closed" /\ Calls("close") # {})

\* The bind failed for want of privilege; the socket was closed on the way out.
C9_Witness ==
    /\ tryNew.kind = "err" /\ tryNew.error = [kind |-> "PermissionDenied", call |-> 4]
    /\ trace[4].op = "bind" /\ sock.state = "closed" /\ exit = "failure"

\* C10: on every path, close is called exactly once on a socket that was
\* opened and never when the open failed; a failing close is logged and not
\* propagated.
C10_ClosedExactlyOnce ==
    /\ Cardinality(Calls("close")) <= 1
    /\ Calls("close") # {} => Opened
    /\ (exit # "none" /\ Opened) => Cardinality(Calls("close")) = 1
    /\ \A i \in Calls("close") :
          trace[i].res # "ok"
            => /\ \E l \in 1..Len(log) :
                    log[l] = [what |-> "closing",
                              error |-> [kind |-> trace[i].res, call |-> i]]
               /\ tryNew.kind = "err" => tryNew.error.call # i
               /\ exit # "none"
                    => exit = (IF FailedSteps = {} THEN "success" ELSE "failure")

\* A connector was built, pulled from as often as the bound allows and
\* dropped, and the close failed.
C10_Witness ==
    /\ exit = "success" /\ Cardinality(Calls("recv")) = MaxPulls
    /\ \E i \in Calls("close") : trace[i].res = "Other"

(***************************************************************************)
(* Disposal and failed receives: claims C11 to C14, under Spec.            *)
(***************************************************************************)
\* A field of a control datagram as the kernel reads it: size bytes at offset
\* off, in host order.
ControlField(bytes, off, size) == host_value(endian, SubSeq(bytes, off + 1, off + size))

ControlOpOffset == nlmsg_length(0) + offset_of(cn_msg, "data")

IsUnsubscribe(t) ==
    /\ t.op = "send"
    /\ Len(t.arg) >= ControlOpOffset + 4
    /\ ControlField(t.arg, ControlOpOffset, 4) = W32(PROC_CN_MCAST_IGNORE)

\* The sends issued after the five construction calls.
DisposalSends == {i \in Calls("send") : i > 5}

Logged(what, i) ==
    \E l \in 1..Len(log) : log[l] = [what |-> what, error |-> [kind |-> trace[i].res, call |-> i]]

\* C11: disposing a constructed connector sends exactly one unsubscribe
\* datagram (operation IGNORE) and then closes the socket, in that order; a
\* failed unsubscribe send is only logged, main still returns success and the
\* socket is still closed.
C11_DisposeUnsubscribesThenCloses ==
    tryNew.kind = "ok" =>
        /\ Cardinality(DisposalSends) <= 1
        /\ \A i \in DisposalSends : IsUnsubscribe(trace[i])
        /\ \A c \in Calls("close") : c = Len(trace) /\ (c - 1) \in DisposalSends
        /\ exit # "none" => (Cardinality(DisposalSends) = 1 /\ Calls("close") # {})
        /\ \A i \in DisposalSends :
              trace[i].res # "ok"
                => /\ Logged("unsubscribing", i)
                   /\ pc # "startup_failed"
                   /\ exit # "none" => (exit = "success" /\ sock.state = "closed")

\* A connector was built and disposed of; its unsubscribe send failed.
C11_Witness ==
    /\ tryNew.kind = "ok" /\ exit = "success" /\ sock.state = "closed"
    /\ \E i \in DisposalSends : trace[i].res = "Other" /\ trace[i + 1].op = "close"

\* C12: no set_option, bind, send or receive is issued on a socket after it
\* has been closed; every pull and every control send, the unsubscribe of the
\* disposal included, comes strictly before the close.
C12_NothingAfterClose ==
    /\ \A c \in Calls("close") :
          \A j \in 1..Len(trace) :
              trace[j].op \in {"setsockopt", "bind", "send", "recv"} => j < c
    /\ sock.state = "closed" => Calls("close") # {}

\* A socket was closed after pulls and after both control sends.
C12_Witness ==
    /\ sock.state = "closed" /\ Calls("recv") # {}
    /\ Cardinality(Calls("send")) = 2
    /\ \A c \in Calls("close") : \A j \in Calls("recv") \cup Calls("send") : j < c

\* C13: when the receive fails with WouldBlock, next yields no item (None,
\* not a failed item), nothing is logged for it and the connector is left
\* open, so that a later next issues a new receive.
C13_TimeoutYieldsNothing ==
    \A i \in Calls("recv") :
        trace[i].res = "WouldBlock"
          => /\ (i = Len(trace) /\ pc = "handle") => item = [kind |-> "none"]
             /\ \A l \in 1..Len(log) : log[l].error.call # i
             /\ i = Len(trace)
                  => /\ sock.state = "open"
                     /\ pc \in {"handle", "check_stop", "next", "drop_connector"}

\* A receive timed out, and a later next received a datagram and yielded an
\* event.
C13_Witness ==
    \E i, j \in Calls("recv") :
        /\ i < j /\ j = Len(trace)
        /\ trace[i].res = "WouldBlock" /\ trace[j].res = "ok"
        /\ pc = "handle" /\ item.kind \in {"Exec", "Exit"}

\* C14: when the receive fails with any other error, next yields that very
\* error as a failed item, and the connector is left open and usable: the
\* failure closes nothing.
C14_ReceiveErrorIsItem ==
    \A i \in Calls("recv") :
        trace[i].res \notin {"ok", "WouldBlock"}
          => /\ (i = Len(trace) /\ pc = "handle")
                  => item = [kind |-> "err", error |-> [kind |-> trace[i].res, call |-> i]]
             /\ i = Len(trace)
                  => /\ sock.state = "open"
                     /\ pc \in {"handle", "check_stop", "next", "drop_connector"}

\* A receive failed, and the next one yielded an event.
C14_Witness ==
    \E i, j \in Calls("recv") :
        /\ i < j /\ j = Len(trace)
        /\ trace[i].res = "Other" /\ trace[j].res = "ok"
        /\ pc = "handle" /\ item.kind \in {"Exec", "Exit"}

(***************************************************************************)
(* The decoder: claim C15, under PullSpec.                                 *)
(***************************************************************************)
Received == trace # << >> /\ trace[Len(trace)].op = "recv" /\ trace[Len(trace)].res = "ok"

\* What the datagram msg is about, from its kind and its process id alone.
EventOf(m) ==
    CASE m.size = EventMsgSize /\ m.what = PROCESS_EVENT_EXEC -> [kind |-> "Exec", pid |-> m.pid]
      [] m.size = EventMsgSize /\ m.what = PROCESS_EVENT_EXIT -> [kind |-> "Exit", pid |-> m.pid]
      [] OTHER -> [kind |-> "none"]

\* C15: each next issues exactly one receive; after a successful receive the
\* result depends on the event's kind and process id only: EXEC gives
\* Exec(process_pid), EXIT gives Exit(process_pid), any other kind gives no
\* item; the thread-group id has no influence.
C15_DecodeByKindAndPid ==
    /\ [](pc = "handle" /\ Received => item = EventOf(msg))
    /\ [][pc = "next" /\ pc' # "next"
            => /\ Len(trace') = Len(trace) + 1
               /\ trace'[Len(trace')].op = "recv"
               /\ SubSeq(trace', 1, Len(trace)) = trace]_vars

\* An EXEC event of a thread that is not its group's leader was decoded to
\* Exec of the thread's own id.
C15_Witness ==
    /\ pc = "handle" /\ Received
    /\ msg.what = PROCESS_EVENT_EXEC /\ msg.pid # msg.tgid
    /\ item = [kind |-> "Exec", pid |-> msg.pid]

(***************************************************************************)
(* The length computation: claim C16, under LengthSpec.                    *)
(***************************************************************************)
Computed == calc.fn = "nlmsg_length"

IsSubscribeCall(i) == i = 5 /\ \A j \in 1..4 : trace[j].res = "ok"

CnMsgOffset == nlmsg_length(0)

ControlOpBytes == (ControlOpOffset + 1)..(ControlOpOffset + size_of(proc_cn_mcast_op))

\* C17: the datagram of subscribe_to_proc_events(true) decodes to the pair
\* (CN_IDX_PROC, CN_VAL_PROC) and the operation LISTEN, the one of
\* subscribe_to_proc_events(false) to the same pair and IGNORE, and the two
\* differ in no byte outside the operation.
C17_ControlRoundTrip ==
    /\ \A i \in Calls("send") :
          LET d == trace[i].arg
          IN  /\ ControlField(d, CnMsgOffset + offset_of(cn_msg, "id") + offset_of(cb_id, "idx"), 4)
                    = W32(CN_IDX_PROC)
              /\ ControlField(d, CnMsgOffset + offset_of(cn_msg, "id") + offset_of(cb_id, "val"), 4)
                    = W32(CN_VAL_PROC)
              /\ ControlField(d, ControlOpOffset, 4)
                    = W32(IF IsSubscribeCall(i) THEN PROC_CN_MCAST_LISTEN
                          ELSE PROC_CN_MCAST_IGNORE)
    /\ \A i, j \in Calls("send") :
          /\ Len(trace[i].arg) = Len(trace[j].arg)
          /\ \A k \in 1..Len(trace[i].arg) :
                k \notin ControlOpBytes => trace[i].arg[k] = trace[j].arg[k]

\* Both datagrams were sent: the subscribe of try_new, the unsubscribe of Drop.
C17_Witness ==
    /\ Cardinality(Calls("send")) = 2
    /\ \E i, j \in Calls("send") :
          /\ IsSubscribeCall(i) /\ ~IsSubscribeCall(j)
          /\ trace[i].arg # trace[j].arg

\* C18: every control datagram sent has nlmsg_pid 0 and nlmsg_type
\* NLMSG_DONE, an nlmsg_len equal to nlmsg_length(size of cn_msg + size of
\* the operation), which is the number of bytes handed to send, and a
\* cn_msg.len equal to the size of the operation.
C18_ControlHeader ==
    \A i \in Calls("send") :
        LET d == trace[i].arg
        IN  /\ ControlField(d, offset_of(nlmsghdr, "nlmsg_pid"), 4) = W32(0)
            /\ ControlField(d, offset_of(nlmsghdr, "nlmsg_type"), 2) = W16(NLMSG_DONE)
            /\ ControlField(d, offset_of(nlmsghdr, "nlmsg_len"), 4)
                  = W32(nlmsg_length(size_of(cn_msg) + size_of(proc_cn_mcast_op)))
            /\ ControlField(d, offset_of(nlmsghdr, "nlmsg_len"), 4) = W32(Len(d))
            /\ ControlField(d, CnMsgOffset + offset_of(cn_msg, "len"), 2)
                  = W16(size_of(proc_cn_mcast_op))

\* An unsubscribe datagram of 40 bytes was sent after a failed construction.
C18_Witness ==
    /\ tryNew.kind = "err"
    /\ \E i \in Calls("send") : ~IsSubscribeCall(i) /\ Len(trace[i].arg) = 40

(***************************************************************************)
(* Byte order of the filter's constants: claim C19, under FilterSpec.      *)
(***************************************************************************)
\* The compare-with-constant branches of the program: the index of the
\* branch, the field the load before it reads, as the datagram holds it, and
\* the constant the field is tested for.
KCompares ==
    LET atType == Len(filter_from_kernel(endian))
        atIdx == atType + Len(filter_msg_type(endian))
        atVal == atIdx + Len(filter_cn_idx(endian))
        atExec == atVal + Len(filter_cn_val(endian))
        atExit == atExec + Len(filter_accept_exec(endian))
    IN  { [at |-> atType + 1, field |-> msg.nlmsg_type, const |-> W16(NLMSG_DONE)],
          [at |-> atIdx + 1, field |-> msg.idx, const |-> W32(CN_IDX_PROC)],
          [at |-> atVal + 1, field |-> msg.val, const |-> W32(CN_VAL_PROC)],
          [at |-> atExec + 1, field |-> msg.what, const |-> PROCESS_EVENT_EXEC],
          [at |-> atExit + 1, field |-> msg.what, const |-> PROCESS_EVENT_EXIT] }

\* C19: each constant the program compares a loaded field with is embedded
\* in network byte order at the width of the load before it (16 bits for
\* nlmsg_type, 32 bits for the others): when the branch is reached, the
\* loaded value equals the embedded constant exactly when the field of the
\* datagram holds that constant.
C19_ConstantsInNetworkOrder ==
    \A c \in KCompares :
        /\ vm.prog[c.at + 1].code = BPF_JMP + BPF_JEQ + BPF_K
        /\ vm.prog[c.at].code = BPF_LD + (IF Len(c.const) = 2 THEN BPF_H ELSE BPF_W) + BPF_ABS
        /\ (vm.status = "run" /\ vm.pc = c.at)
              => ((vm.A = vm.prog[c.at + 1].k) <=> (c.field = c.const))

\* On a little-endian host the exit test was reached with an EXIT event: the
\* embedded constant is not the host-order one, and the loaded value equals it.
C19_Witness ==
    /\ endian = "little" /\ vm.status = "run"
    /\ \E c \in KCompares :
          /\ vm.pc = c.at /\ c.const = PROCESS_EVENT_EXIT /\ msg.what = PROCESS_EVENT_EXIT
          /\ vm.prog[c.at + 1].k # PROCESS_EVENT_EXIT
          /\ vm.A = vm.prog[c.at + 1].k

(***************************************************************************)
(* Failures inside the loop: claim C20, under LoopSpec.                    *)
(***************************************************************************)
\* The failed calls whose error the loop body has had in hand: a receive (a
\* timeout is no error), a read of /proc, the write of the line.
LoopFailures ==
    {i \in 1..Len(trace) :
        /\ trace[i].res # "ok"
        /\ \/ trace[i].op \in {"cmdline_reader", "exe_reader", "writeln"}
           \/ /\ trace[i].op = "recv" /\ trace[i].res # "WouldBlock"
              /\ ~(i = Len(trace) /\ pc = "handle")}

\* C20: a failed item from next, a failure to read the command line or the
\* executable of the process, and a failure to write the line are each
\* logged, once; the loop goes on to the stop test and, the flag not being
\* set, to the next pull; the connector is neither left nor disposed of.
C20_LoopSurvivesFailures ==
    /\ [](/\ \A i \in LoopFailures : Logged("event", i)
          /\ Cardinality({l \in 1..Len(log) : log[l].what = "event"}) = Cardinality(LoopFailures)
          /\ sock.state = "open" /\ Calls("close") = {} /\ exit = "none"
          /\ pc \in {"next", "handle", "check_stop", drop_glue[1]}
          /\ pc = drop_glue[1] => stop)
    /\ [][/\ pc = "handle" => pc' = "check_stop"
          /\ (pc = "check_stop" /\ ~stop) => pc' = "next"]_pc

\* The write of a line failed and was logged; the loop went on and pulled
\* again, and that receive failed and was logged too; the loop is still on.
C20_Witness ==
    /\ ~stop /\ pc = "next" /\ Len(log) = 2
    /\ \E i, j \in LoopFailures :
          /\ i < j /\ trace[i].op = "writeln" /\ trace[j].op = "recv"
          /\ Logged("event", i) /\ Logged("event", j)

(***************************************************************************)
(* The interrupt: claim C21, under MainSpec.                               *)
(***************************************************************************)
\* The pulls the model allows are used up and main is about to pull.
PullsSpent == pc = "next" /\ Cardinality(Calls("recv")) >= MaxPulls

\* The calls of the disposal are the last two of the trace.
DisposedLast ==
    /\ Len(trace) >= 2
    /\ IsUnsubscribe(trace[Len(trace) - 1])
    /\ trace[Len(trace)].op = "close"

\* C21: every pull is followed by the stop test, whatever it yielded; with
\* the flag set the test leaves the loop, so no pull is started once the flag
\* is set and the pull in progress has returned; the connector is then
\* disposed of (unsubscribe, then close) and main returns success.  The loop
\* is left for no other reason.
C21_StopEndsLoop ==
    /\ [][/\ pc = "next" => pc' = "handle"
          /\ pc = "handle" => pc' = "check_stop"
          /\ pc = "check_stop" => pc' = (IF stop THEN "drop_connector" ELSE "next")
          /\ pc = "drop_connector" => pc' = "drop_socket"
          /\ pc = "drop_socket" => pc' = "exit"]_pc
    /\ [][stop => stop']_stop
    /\ [][pc # "next" => Calls("recv")' = Calls("recv")]_trace
    /\ [](/\ pc \in {"next", "handle", "check_stop", "drop_connector", "drop_socket", "exit"}
          /\ pc \in {"drop_connector", "drop_socket", "exit"} => stop
          /\ pc = "exit" <=> exit # "none"
          /\ exit # "none" => (exit = "success" /\ DisposedLast /\ sock.state = "closed"))
    /\ (stop /\ ~PullsSpent) ~> (exit = "success")

\* The handler ran while the second pull was in progress; the first pull had
\* yielded an event and the second failed; main has returned success after
\* the disposal.
C21_Witness ==
    /\ exit = "success" /\ stop /\ DisposedLast
    /\ Cardinality(Calls("recv")) = 2
    /\ \E i, j \in Calls("recv") : i < j /\ trace[i].res = "ok" /\ trace[j].res = "Other"
    /\ out # << >>

(***************************************************************************)
(* A failed start: claim C22, under Spec.                                  *)
(***************************************************************************)
RootNote == context("The program was started without root privileges")

\* try_new has failed: main is about to return an error or has returned it,
\* and has neither pulled nor read /proc nor written a line.
StartupAborted ==
    /\ pc \in {"startup_failed", "exit"}
    /\ pc = "exit" => exit = "failure"
    /\ Calls("recv") = {}
    /\ \A i \in 1..Len(trace) : trace[i].op \notin {"cmdline_reader", "exe_reader", "writeln"}
    /\ registry = EmptyRegistry /\ out = << >>

\* C22 as stated: main fails without a pull and without touching the
\* registry; the error has the privilege message exactly for
\* PermissionDenied, and is the I/O error alone otherwise.
C22_OnlyIoErrorOtherwise ==
    /\ tryNew.kind = "err" => StartupAborted
    /\ exit = "failure" =>
          /\ tryNew.kind = "err"
          /\ Contains(failure, RootNote) <=> (tryNew.error.kind = "PermissionDenied")
          /\ tryNew.error.kind # "PermissionDenied" => failure = <<tryNew.error>>

\* C22, amended: main fails without a pull and without touching the
\* registry; the error main returns is the I/O error of try_new under the
\* context "Couldn't create process events source", with the privilege
\* message between the two exactly when the kind is PermissionDenied.
C22_StartupFailureReported ==
    /\ tryNew.kind = "err" => StartupAborted
    /\ exit = "failure" =>
          /\ tryNew.kind = "err"
          /\ Contains(failure, RootNote) <=> (tryNew.error.kind = "PermissionDenied")
          /\ failure[1] = context("Couldn't create process events source")
          /\ failure[Len(failure)] = tryNew.error
          /\ Len(failure) = (IF tryNew.error.kind = "PermissionDenied" THEN 3 ELSE 2)
    /\ exit # "failure" => failure = << >>

\* The bind failed for a reason other than privilege and main has returned
\* its error; elsewhere the open is refused for want of privilege.
C22_Witness ==
    /\ exit = "failure" /\ tryNew.error = [kind |-> "Other", call |-> 4]
    /\ failure = <<context("Couldn't create process events source"), tryNew.error>>

(***************************************************************************)
(* The solver: claims C23 to C26, under SolverSpec.                        *)
(***************************************************************************)
\* The six loader names, as the claims list them.
LoaderNames ==
    { <<"w", "i", "n", "e", "-", "p", "r", "e", "l", "o", "a", "d", "e", "r">>,
      <<"w", "i", "n", "e", "6", "4", "-", "p", "r", "e", "l", "o", "a", "d", "e", "r">>,
      <<"w", "i", "n", "e">>,
      <<"w", "i", "n", "e", "6", "4">>,
      <<"w", "i", "n", "e", "l", "o", "a", "d", "e", "r">>,
      <<"w", "i", "n", "e", "l", "o", "a", "d", "e", "r", "6", "4">> }

Called(f) == calc.fn = f

\* C23: for an executable name that is not one of the six loader names,
\* get_process_executed_file returns that name unchanged, whatever the
\* command line holds.
C23_OtherExecutablesUnchanged ==
    (Called("get_process_executed_file") /\ calc.arg.pexe \notin LoaderNames)
        => calc.result = calc.arg.pexe

\* The name differs from a loader's by its case only, and the command line
\* is a wine launch of a Windows program.
C23_Witness ==
    /\ Called("get_process_executed_file")
    /\ calc.arg.pexe = <<"W", "i", "n", "e">>
    /\ calc.arg.cmdline = << <<"/", "b", "/", "w", "i", "n", "e">>, <<"C", ":", "\\", "a", ".", "e", "x", "e">> >>
    /\ calc.result = <<"W", "i", "n", "e">>

\* What the claims mean by the parts of an argument: the text after the last
\* separator, and an extension exe, which takes a dot before it.
LastOf(path, seps) ==
    LET at == {i \in 1..Len(path) : path[i] \in seps}
        from == IF at = {} THEN 1 ELSE 1 + CHOOSE i \in at : \A j \in at : j <= i
    IN  SubSeq(path, from, Len(path))

LastComponent(path) == LastOf(path, {"/", "\\"})

ExeInAnyCase == {<<x, y, z>> : x \in {"e", "E"}, y \in {"x", "X"}, z \in {"e", "E"}}

HasExeExtension(c) ==
    /\ Len(c) >= 4
    /\ c[Len(c) - 3] = "."
    /\ SubSeq(c, Len(c) - 2, Len(c)) \in ExeInAnyCase

\* An absolute path whose file name is one of the six loader names.
IsLoaderArg(cmd) == cmd # << >> /\ cmd[1] = "/" /\ LastOf(cmd, {"/"}) \in LoaderNames

\* The arguments from the first that is not a loader on.
AfterLoaders(cmdline) ==
    LET k == CHOOSE k \in 0..Len(cmdline) :
                 /\ \A i \in 1..k : IsLoaderArg(cmdline[i])
                 /\ k < Len(cmdline) => ~IsLoaderArg(cmdline[k + 1])
    IN  SubSeq(cmdline, k + 1, Len(cmdline))

\* C24: for a loader's executable name, get_process_executed_file returns
\* the last path component of the first argument that is not an
\* absolute-path loader when that component has the extension exe, and the
\* executable name when it has not or when there is no such argument; the
\* arguments after that one do not count.
C24_WineLaunchResolved ==
    (Called("get_process_executed_file") /\ calc.arg.pexe \in LoaderNames)
        => LET rest == AfterLoaders(calc.arg.cmdline)
           IN  calc.result = IF rest # << >> /\ HasExeExtension(LastComponent(rest[1]))
                             THEN LastComponent(rest[1])
                             ELSE calc.arg.pexe

\* The command line is not a wine launch: it is empty, or its first argument
\* is not an absolute-path loader.
NonWineLaunch(cmdline) == cmdline = << >> \/ ~IsLoaderArg(cmdline[1])

C26_ExeExtensionOnly ==
    Called("get_wine_exe_from_path")
        => LET app_name == LastComponent(calc.arg.cmd)
           IN  calc.result = IF HasExeExtension(app_name) THEN Some(app_name) ELSE None

(***************************************************************************)
(* Unsubscribing and the filter's guarantee: claims C27 and C28, under     *)
(* Spec.                                                                   *)
(***************************************************************************)
IsSubscribe(t) ==
    /\ t.op = "send"
    /\ Len(t.arg) >= ControlOpOffset + 4
    /\ ControlField(t.arg, ControlOpOffset, 4) = W32(PROC_CN_MCAST_LISTEN)

\* C27: an unsubscribe datagram is sent only after a subscribe datagram was
\* sent with success on the socket; a construction that fails at the
\* timeout, filter, bind or subscribe step sends none before the close.
C27_UnsubscribeOnlyWhenSubscribed ==
    \A i \in 1..Len(trace) :
        IsUnsubscribe(trace[i])
            => \E j \in 1..(i - 1) : IsSubscribe(trace[j]) /\ trace[j].res = "ok"

\* A datagram the program lets through: EXEC or EXIT, of a thread-group
\* leader.
LeaderEvent(m) ==
    /\ m.what \in {PROCESS_EVENT_EXEC, PROCESS_EVENT_EXIT}
    /\ m.pid = m.tgid

\* This step is a receive that returned a datagram.
ReceivedDatagram ==
    /\ pc = "next" /\ pc' = "handle"
    /\ trace'[Len(trace')].op = "recv" /\ trace'[Len(trace')].res = "ok"

\* C28: the socket is never a member of the group without the program
\* attached, so every datagram queued on it, and so every datagram a next
\* receives, is an EXEC or EXIT of a thread-group leader; next then yields
\* the event of that leader and never takes the branch for other kinds.
C28_OnlyLeaderEventsReceived ==
    /\ [](/\ sock.groups = CN_IDX_PROC => sock.attached
          /\ \A i \in 1..Len(queue) : LeaderEvent(queue[i]) /\ queue[i] \in sock.passes)
    /\ [][ReceivedDatagram =>
            /\ LeaderEvent(Head(queue))
            /\ item'.kind \in {"Exec", "Exit"}
            /\ item'.pid = Head(queue).tgid
            /\ Head(queue).what = (IF item'.kind = "Exec" THEN PROCESS_EVENT_EXEC
                                   ELSE PROCESS_EVENT_EXIT)]_vars

\* An Exit of the leader 2 was received and yielded, after an earlier pull.
C28_Witness ==
    /\ pc = "handle" /\ item = [kind |-> "Exit", pid |-> W32(2)]
    /\ trace[Len(trace)].op = "recv" /\ trace[Len(trace)].res = "ok"
    /\ Cardinality(Calls("recv")) = 2
    /\ sock.attached /\ Cardinality(sock.passes) < Cardinality(Traffic)

(***************************************************************************)
(* The registry: claims C29 and C30, under RegistrySpec.                   *)
(***************************************************************************)
\* The i-th call ended the reads of a handled Exec of pid: exe_reader is
\* called after cmdline_reader has succeeded, and the insert follows it.
ExecHandledAt(i, pid) ==
    trace[i].op = "exe_reader" /\ trace[i].arg = pid /\ trace[i].res = "ok"

\* The j-th call wrote, or failed to write, the line of an Exit of pid; a
\* line is made for an Exit only when its pid was removed from the registry.
ExitRemovedAt(j, pid) ==
    trace[j].op = "writeln" /\ trace[j].arg.event = [kind |-> "Exit", pid |-> pid]

\* This step handles an Exec whose two reads of /proc succeed.
ExecHandled ==
    /\ item.kind = "Exec"
    /\ Len(trace') >= Len(trace) + 2
    /\ trace'[Len(trace) + 1] = call("cmdline_reader", item.pid, "ok")
    /\ trace'[Len(trace) + 2] = call("exe_reader", item.pid, "ok")

\* C29: the registry is empty at first; a pid is in it exactly when an Exec
\* of it was handled with both reads succeeding and no Exit of it has been
\* handled since.  The body of the loop, given an Exec whose reads succeed,
\* sets the entry of its pid to the name just read, new or not; given an
\* Exit, removes the entry of its pid; given nothing, a failed pull or an
\* Exec of which a read fails, leaves the registry as it is.  No other step
\* changes the registry, and whether the line of the event is then written
\* or not makes no difference to it.
C29_RegistryFollowsEvents ==
    /\ registry = EmptyRegistry
    /\ [](\A pid \in Pids :
            pid \in DOMAIN registry
                <=> \E i \in 1..Len(trace) :
                        /\ ExecHandledAt(i, pid)
                        /\ \A j \in (i + 1)..Len(trace) : ~ExitRemovedAt(j, pid))
    /\ [][IF pc # "handle" THEN registry' = registry
          ELSE IF ExecHandled
          THEN registry' = [p \in DOMAIN registry \cup {item.pid} |->
                               IF p = item.pid THEN NameOf(item.pid) ELSE registry[p]]
          ELSE IF item.kind = "Exit"
          THEN registry' = [p \in DOMAIN registry \ {item.pid} |-> registry[p]]
          ELSE registry' = registry]_vars

\* The process 1 called exec twice, first as a shell, then as wine running
\* a.exe; its entry was written over.
C29_Witness ==
    /\ registry = [p \in {W32(1)} |-> <<"a", ".", "e", "x", "e">>]
    /\ Cardinality({i \in 1..Len(trace) : ExecHandledAt(i, W32(1))}) = 2
    /\ Len(out) = 2 /\ out[1].text = << <<"s", "h">> >>

\* The Exit lines of pid among the lines written to stdout.
ExitLines(lines, pid) ==
    SelectSeq(lines, LAMBDA l : l.event = [kind |-> "Exit", pid |-> pid])

\* The line an Exit of a registered pid yields.
ExitLineOf(pid) == [event |-> [kind |-> "Exit", pid |-> pid], text |-> <<registry[pid]>>]

\* This step is the body of the loop given an Exit.
ExitHandled == pc = "handle" /\ item.kind = "Exit"

\* C30: an Exit of a pid that is in the registry yields one line, made of
\* the event and the name the registry holds for the pid, which is handed to
\* stdout once and is in the output if that write succeeds; an Exit of a pid
\* that is not in the registry calls nothing, prints nothing, logs nothing
\* and leaves the registry as it is.  No other step adds an Exit line to the
\* output.  Every Exit line handed to stdout comes after a handled Exec of
\* its pid, with no other Exit line of the pid in between.
C30_ExitLineOnlyWhenRegistered ==
    /\ [][ExitHandled =>
            IF item.pid \in DOMAIN registry
            THEN \E w \in {call("writeln", ExitLineOf(item.pid), r) : r \in {"ok"} \cup WriteErrKinds} :
                    /\ Len(trace') > Len(trace)
                    /\ trace'[Len(trace')] = w
                    /\ \A i \in (Len(trace) + 1)..(Len(trace') - 1) : trace'[i].op = "set_color"
                    /\ out' = IF w.res = "ok" THEN Append(out, ExitLineOf(item.pid)) ELSE out
            ELSE trace' = trace /\ out' = out /\ log' = log /\ registry' = registry]_vars
    /\ [][~ExitHandled => \A pid \in Pids : ExitLines(out', pid) = ExitLines(out, pid)]_vars
    /\ [](\A pid \in Pids : \A j \in 1..Len(trace) :
            ExitRemovedAt(j, pid)
                => \E i \in 1..(j - 1) :
                      /\ ExecHandledAt(i, pid)
                      /\ \A k \in (i + 1)..(j - 1) : ~ExitRemovedAt(k, pid))
    /\ [](\A pid \in Pids :
            Len(ExitLines(out, pid))
                <= Cardinality({i \in 1..Len(trace) : ExecHandledAt(i, pid)}))

\* The process 1 ran a shell and ended: its Exit line, with the name "sh",
\* is in the output and the registry is empty again.
C30_Witness ==
    /\ registry = EmptyRegistry
    /\ Len(out) >= 1
    /\ out[Len(out)] = [event |-> [kind |-> "Exit", pid |-> W32(1)], text |-> << <<"s", "h">> >>]

====
